---- MODULE Spec2Model ----
(***************************************************************************)
(* Request handling of the Telegram download bots of this repository:      *)
(*   TeraboxDownloader        src/unnamed/part_003 (two resolvers, arbiter,*)
(*                            50MB gate, download-and-send)                *)
(*   MultiPlatformDownloader  src/index.js:71-658 (RapidAPI then AlphaAPI, *)
(*                            download buttons)                            *)
(*   TeraBoxVideoBot          src/unnamed/part_001 (one resolver, numeric  *)
(*                            gate)                                        *)
(*   BumpChannelBot           src/index.js:677-1054 (one resolver, MB gate)*)
(*                                                                         *)
(* A JavaScript string is a sequence of lexemes (atoms such as "/s/" or    *)
(* "terabox.com"); concatenation is \o, String.includes of a lexeme is     *)
(* membership in the sequence.  An absent JSON field is Undefined.  A      *)
(* nullable local (let x = null) is <<>> or <<value>>.                     *)
(*                                                                         *)
(* Specifications:                                                         *)
(*   Spec          the resolution of a request, by each of the four bots   *)
(*   TransferSpec  the transfer of one file and its delivery               *)
(*   SessionSpec   requests and downloads of two chats at once             *)
(*   CallSpec      an axios request against a silent upstream              *)
(*   PageSpec      the player page of src/unnamed/part_000 and its tokens  *)
(*   SettingsSpec  MultiPlatformDownloader with its settings buttons       *)
(*   BumpSpec      BumpChannelBot with /toggleforward                      *)
(*   ConvertSpec   the conversion to MP4 and the delivery of index.js      *)
(*   StartupSpec   the connect to MongoDB and the launch of the bots       *)
(***************************************************************************)
EXTENDS Integers, Sequences, FiniteSets

VARIABLES
    bot,             \* which of the bots this process is
    pc,              \* position of the handler of the current message
    requests,        \* messages handled so far
    url,             \* match[1] / ctx.message.text of the current message
    rapidAPIResult,  \* what the RapidAPI adapter returned, <<>> if nothing
    alphaAPIResult,  \* what the AlphaAPI adapter returned, <<>> if nothing
    rapidAPIError,   \* message of the Error the RapidAPI adapter threw
    alphaAPIError,   \* message of the Error the AlphaAPI adapter threw
    fileDetails,     \* the descriptor the handler proceeds with
    apiSource,       \* 'RapidAPI' | 'AlphaAPI'
    downloadLink,    \* the link handed to the download / shown to the user
    gate,            \* what the size check decided for this request
    outbox,          \* messages given to the requester for this request
    apiCalls,        \* resolver API requests issued for this request
    downloads,       \* streamed downloads started for this request
    \* the transfer of one file (downloadAndSendFile, downloadFile, the
    \* stream handlers of the Telegraf bots) and what follows it
    DUMP_CHANNEL_ID, \* whether process.env.DUMP_CHANNEL_ID is set
    fileSize,        \* the declared size the progress percentage is taken of
    now,             \* Date.now(), in seconds since the transfer started
    lastUpdateTime,  \* time of the last progress update (part_003)
    downloadedSize,  \* downloadedSize / totalBytes: bytes received so far
    lastProgress,    \* percentage of the last progress update (part_001)
    reports,         \* progress updates sent, in order
    chunks,          \* 'data' events so far
    stream,          \* response.data: none | flowing | ended
    writer,          \* the write stream: none | open | finished | errored
    promise,         \* the promise downloadFile / downloadAndSendFile returns
    timer,           \* the watchdog setTimeout: none | armed | fired
    fin,             \* position of the writer's 'finish' / 'error' handler
    file,            \* the local file: absent | present | removed
    archive,         \* what was sent to the dump channel
    unlinks,         \* fs.unlinkSync calls on the local file
    faults,          \* what has failed during this transfer
    lateWrites,      \* bytes written to the file after the outcome was reported
    \* what outlives one request: the descriptors kept for the download
    \* buttons, the buttons on offer, the transfers of the chats, the disk
    lastFileDetails, \* this.lastFileDetails (part_002): <<>> or <<descriptor>>
    fileDetailsMap,  \* this.fileDetailsMap (index.js): key -> <<>> or <<descriptor>>
    keyboards,       \* chat -> the download buttons sent to that chat
    transfers,       \* chat -> the download started for that chat
    files,           \* paths that exist in the file system
    settings,        \* what the bot last answered to a settings button
    http,            \* the axios request that is under way
    page,            \* the player page in a browser: its query and elements
    validTokens,     \* the player tokens that have been issued and not purged
    clock,           \* hours since the bot started
    \* BumpChannelBot
    autoForwarding,  \* let autoForwarding
    reply_to_message, \* ctx.message.reply_to_message: none | text | document
    bumpChannel,     \* what was sent to BUMP_CHANNEL for this request
    \* handleDownloadCallback of index.js after downloadFile
    conversion,      \* conversionType and the locals finalFilePath, fileName
    \* the start of the process of the Telegraf bots
    usersCollection, \* let usersCollection: undefined until connect has resolved
    startup,         \* client.connect(), bot.launch(), the process
    chatMember       \* what getChatMember gave for the current message

vars == <<bot, pc, requests, url, rapidAPIResult, alphaAPIResult, rapidAPIError,
          alphaAPIError, fileDetails, apiSource, downloadLink, gate, outbox,
          apiCalls, downloads, DUMP_CHANNEL_ID, fileSize, now, lastUpdateTime,
          downloadedSize, lastProgress, reports, chunks, stream, writer,
          promise, timer, fin, file, archive, unlinks, faults, lateWrites,
          lastFileDetails, fileDetailsMap, keyboards, transfers, files, settings,
          http,
          page, validTokens, clock, autoForwarding, reply_to_message,
          bumpChannel, conversion, usersCollection, startup, chatMember>>

\* the state of the resolution of a request
requestVars == <<requests, url, rapidAPIResult, alphaAPIResult, rapidAPIError,
                 alphaAPIError, fileDetails, apiSource, downloadLink, gate,
                 apiCalls, downloads>>

\* the state of a transfer
transferVars == <<DUMP_CHANNEL_ID, fileSize, now, lastUpdateTime, downloadedSize,
                  lastProgress, reports, chunks, stream, writer, promise, timer,
                  fin, file, archive, unlinks, faults, lateWrites>>

\* the state that outlives a request
contextVars == <<lastFileDetails, fileDetailsMap, keyboards, transfers, files,
                 settings>>

\* what is outside the handlers of the bot
pageVars == <<page, validTokens, clock>>
forwardVars == <<autoForwarding, reply_to_message, bumpChannel>>
sideVars == <<conversion, usersCollection, startup>>
outsideVars == <<http, pageVars, forwardVars, sideVars, chatMember>>

-----------------------------------------------------------------------------
(* Bounds *)

\* messages one run of the model handles, one after the other
MaxRequests == 2

-----------------------------------------------------------------------------
(* JavaScript values *)

Undefined == "undefined"
NA == "N/A"

Range(s) == {s[i] : i \in 1..Len(s)}

\* x && x !== 'N/A'
Usable(x) == x # Undefined /\ x # NA

\* A size as the upstream JSON carries it: absent, a number of bytes, or a
\* human-formatted string "<tenths/10> <unit>" such as "1.2 GB".
NoSize == [t |-> "undefined", v |-> 0, unit |-> ""]
NumSize(n) == [t |-> "number", v |-> n, unit |-> ""]
StrSize(tenths, u) == [t |-> "string", v |-> tenths, unit |-> u]

NaN == [nan |-> TRUE, v |-> 0]
Num(n) == [nan |-> FALSE, v |-> n]

\* Number(x): a number is itself, undefined and "12 MB" are NaN
Number(x) == IF x.t = "number" THEN Num(x.v) ELSE NaN

\* a < b on numbers: false when either side is NaN
Less(a, b) == ~a.nan /\ ~b.nan /\ a.v < b.v

\* truthiness of a size value: undefined and 0 are falsy, strings here are
\* never empty
Truthy(x) == \/ x.t = "string"
             \/ x.t = "number" /\ x.v # 0

-----------------------------------------------------------------------------
(* Inputs: message texts and upstream answers *)

\* Texts of inbound messages (for the /download bots: the part after
\* "/download "), as lexeme sequences.
Texts == {
    <<"https://", "terabox.com", "/s/", "1", "AbC123">>,
    <<"https://", "terabox.com", "/sharing/link", "?surl=", "AbC123">>,
    <<"https://", "1024tera.com", "/s/", "1", "AbC123">>,
    <<"https://", "mega.nz", "/file/", "AbC123">>,
    <<"https://", "example.com", "/file/", "AbC123">>,
    <<"hello", " ", "world">>,
    <<"1", "AbC123">> }

\* lexemes made of [a-zA-Z0-9_-] only
IdLexemes == {"1", "AbC123", "hello", "world"}

\* error.message of a failed HTTP request
TransportErrors == {"timeout of 10000ms exceeded", "Unexpected token < in JSON"}

Links(u) == {Undefined, NA, u}

\* 50 * 1024 * 1024 bytes, and the sizes around it
Bytes50MB == 50 * 1024 * 1024
ByteCounts == {0, 20000000, Bytes50MB - 1, Bytes50MB, 200000000}

\* "500 KB", "12 MB", "50 MB", "1.2 GB"
HumanSizes == {StrSize(5000, "KB"), StrSize(120, "MB"), StrSize(500, "MB"),
               StrSize(12, "GB")}

\* response.data of the RapidAPI resolver
RapidBodies ==
    [file_name : {Undefined, "clip.mp4"},
     sizebytes : {NoSize} \cup {NumSize(n) : n \in ByteCounts},
     file_size : {NoSize} \cup HumanSizes,
     link      : Links("https://rapid/direct"),
     fastlink  : Links("https://rapid/fast")]

\* response.data of the AlphaAPI resolver; data = FALSE: no data member
AlphaBodies ==
    [status       : {"success", "error"},
     data         : BOOLEAN,
     file_name    : {Undefined, "clip.mp4"},
     file_size    : {NoSize} \cup {NumSize(n) : n \in ByteCounts} \cup HumanSizes,
     download_url : Links("https://alpha/download")]

NoBody == [file_name |-> Undefined, sizebytes |-> NoSize, file_size |-> NoSize,
           link |-> Undefined, fastlink |-> Undefined]

NoAlphaBody == [status |-> "error", data |-> FALSE, file_name |-> Undefined,
                file_size |-> NoSize, download_url |-> Undefined]

\* What an axios.get of a resolver ends with: a rejection with error.message
\* = cause, or a response with a body
RapidAnswers == [ok : {TRUE}, cause : {""}, body : RapidBodies] \cup
                [ok : {FALSE}, cause : TransportErrors, body : {NoBody}]
AlphaAnswers == [ok : {TRUE}, cause : {""}, body : AlphaBodies] \cup
                [ok : {FALSE}, cause : TransportErrors, body : {NoAlphaBody}]

-----------------------------------------------------------------------------
(* Link classifier *)

SUPPORTED_DOMAINS_Terabox ==
    <<"terabox.com", "teraboxapp.com", "1drv.ms", "nephobox.com", "4funbox.com",
      "mirrobox.com", "momerybox.com", "1024tera.com", "terabox.app",
      "gibibox.com", "goaibox.com", "terasharelink.com", "teraboxlink.com",
      "terafileshare.com">>

SUPPORTED_DOMAINS_Multi ==
    <<"terabox.com", "1drv.ms", "mega.nz", "mediafire.com", "drive.google.com",
      "dropbox.com", "onedrive.live.com", "sendspace.com", "box.com",
      "4shared.com", "wetransfer.com", "filemail.com", "yandex.disk",
      "fshare.vn", "solidfiles.com", "zippyshare.com", "racaty.net",
      "files.fm", "file-upload.com", "gofile.io">>

Includes(text, lexeme) == lexeme \in Range(text)

\* getServiceProvider: the first domain of the list the url includes, or
\* Undefined (null)
getServiceProvider(domains, u) ==
    IF \E i \in 1..Len(domains) : Includes(u, domains[i])
    THEN domains[CHOOSE i \in 1..Len(domains) :
                    /\ Includes(u, domains[i])
                    /\ \A j \in 1..(i - 1) : ~Includes(u, domains[j])]
    ELSE Undefined

\* positions where text reads "/s/" "1"   (teraboxUrl.includes('/s/1'))
SlashS1(text) == {i \in 1..(Len(text) - 1) : text[i] = "/s/" /\ text[i + 1] = "1"}

\* the part of s before the first "/" lexeme   (.split('/')[0])
RECURSIVE UpToSlash(_)
UpToSlash(s) == IF s = <<>> \/ Head(s) = "/" THEN <<>>
                ELSE <<Head(s)>> \o UpToSlash(Tail(s))

\* TeraboxDownloader.extractTeraboxId
extractTeraboxId(text) ==
    IF SlashS1(text) # {}
    THEN LET i == CHOOSE k \in SlashS1(text) : \A j \in SlashS1(text) : k <= j
         IN <<"1">> \o UpToSlash(SubSeq(text, i + 2, Len(text)))
    ELSE IF /\ Len(text) > 0 /\ text[1] = "https://"     \* new URL() accepts it
            /\ \E i \in 1..(Len(text) - 1) : text[i] = "?surl="
         THEN LET i == CHOOSE k \in 1..(Len(text) - 1) :
                           /\ text[k] = "?surl="
                           /\ \A j \in 1..(k - 1) : text[j] # "?surl="
              IN <<text[i + 1]>>
         ELSE text

-----------------------------------------------------------------------------
(* Resolver adapters and arbiter *)

\* A call either returns a descriptor or throws an Error with a message
Return(d) == [ok |-> TRUE, value |-> d, message |-> <<>>]
Throw(m) == [ok |-> FALSE, value |-> NoBody, message |-> m]

fetchTeraboxDetailsFromRapidAPI(ans) ==
    IF ~ans.ok
    THEN Throw(<<"RapidAPI error: ", ans.cause>>)
    ELSE IF ans.body.file_name = Undefined
         THEN Throw(<<"RapidAPI error: ", "Invalid response from RapidAPI">>)
         ELSE Return(ans.body)

fetchTeraboxDetailsFromAlphaAPI(ans) ==
    IF ~ans.ok
    THEN Throw(<<"AlphaAPI error: ", ans.cause>>)
    ELSE IF ans.body.status # "success" \/ ~ans.body.data
         THEN Throw(<<"AlphaAPI error: ",
                      "Failed to get file details from AlphaAPIs">>)
         ELSE Return([file_name |-> ans.body.file_name,
                      sizebytes |-> ans.body.file_size,
                      file_size |-> ans.body.file_size,
                      link      |-> ans.body.download_url,
                      fastlink  |-> ans.body.download_url])

\* what a try { x = await f() } catch (e) { err = e } leaves in x and err
ResultOf(call) == IF call.ok THEN <<call.value>> ELSE <<>>
ErrorOf(call) == IF call.ok THEN <<>> ELSE <<call.message>>

\* error?.message || 'Unknown error'
MessageOr(err) == IF err = <<>> THEN <<"Unknown error">> ELSE err[1]

Selected(d, src) == [ok |-> TRUE, details |-> d, source |-> src, message |-> <<>>]
Failed(m) == [ok |-> FALSE, details |-> NoBody, source |-> "", message |-> m]

\* getBestTeraboxDetails with the direct link of RapidAPI looked at before the
\* fast link of AlphaAPI
getBest_DirectBeforeFast(rapidResult, alphaResult, rapidError, alphaError) ==
    IF rapidResult = <<>> /\ alphaResult = <<>>
    THEN Failed(<<"Both APIs failed. RapidAPI: ">> \o MessageOr(rapidError)
                \o <<", AlphaAPI: ">> \o MessageOr(alphaError))
    ELSE IF alphaResult = <<>> THEN Selected(rapidResult[1], "RapidAPI")
    ELSE IF rapidResult = <<>> THEN Selected(alphaResult[1], "AlphaAPI")
    ELSE IF Usable(rapidResult[1].fastlink) THEN Selected(rapidResult[1], "RapidAPI")
    ELSE IF Usable(rapidResult[1].link) THEN Selected(rapidResult[1], "RapidAPI")
    ELSE Selected(alphaResult[1], "AlphaAPI")

\* getBestTeraboxDetails that gives up as soon as one adapter has failed
getBest_NeedsBoth(rapidResult, alphaResult, rapidError, alphaError) ==
    IF rapidResult = <<>> \/ alphaResult = <<>>
    THEN Failed(<<"Both APIs failed. RapidAPI: ">> \o MessageOr(rapidError)
                \o <<", AlphaAPI: ">> \o MessageOr(alphaError))
    ELSE IF Usable(rapidResult[1].fastlink) THEN Selected(rapidResult[1], "RapidAPI")
    ELSE IF Usable(alphaResult[1].fastlink) THEN Selected(alphaResult[1], "AlphaAPI")
    ELSE IF Usable(rapidResult[1].link) THEN Selected(rapidResult[1], "RapidAPI")
    ELSE Selected(alphaResult[1], "AlphaAPI")

\* getBestTeraboxDetails whose error names only the first adapter's cause
getBest_FirstCauseOnly(rapidResult, alphaResult, rapidError, alphaError) ==
    IF rapidResult = <<>> /\ alphaResult = <<>>
    THEN Failed(<<"Both APIs failed. RapidAPI: ">> \o MessageOr(rapidError))
    ELSE IF alphaResult = <<>> THEN Selected(rapidResult[1], "RapidAPI")
    ELSE IF rapidResult = <<>> THEN Selected(alphaResult[1], "AlphaAPI")
    ELSE IF Usable(rapidResult[1].fastlink) THEN Selected(rapidResult[1], "RapidAPI")
    ELSE IF Usable(alphaResult[1].fastlink) THEN Selected(alphaResult[1], "AlphaAPI")
    ELSE IF Usable(rapidResult[1].link) THEN Selected(rapidResult[1], "RapidAPI")
    ELSE Selected(alphaResult[1], "AlphaAPI")

\* getBestTeraboxDetails with the two fast-link tests in the other order
getBest_AlphaFirst(rapidResult, alphaResult, rapidError, alphaError) ==
    IF rapidResult = <<>> /\ alphaResult = <<>>
    THEN Failed(<<"Both APIs failed. RapidAPI: ">> \o MessageOr(rapidError)
                \o <<", AlphaAPI: ">> \o MessageOr(alphaError))
    ELSE IF alphaResult = <<>> THEN Selected(rapidResult[1], "RapidAPI")
    ELSE IF rapidResult = <<>> THEN Selected(alphaResult[1], "AlphaAPI")
    ELSE IF Usable(alphaResult[1].fastlink) THEN Selected(alphaResult[1], "AlphaAPI")
    ELSE IF Usable(rapidResult[1].fastlink) THEN Selected(rapidResult[1], "RapidAPI")
    ELSE IF Usable(rapidResult[1].link) THEN Selected(rapidResult[1], "RapidAPI")
    ELSE Selected(alphaResult[1], "AlphaAPI")

\* getBestTeraboxDetails after both adapters have been tried
getBestTeraboxDetails(rapidResult, alphaResult, rapidError, alphaError) ==
    IF rapidResult = <<>> /\ alphaResult = <<>>
    THEN Failed(<<"Both APIs failed. RapidAPI: ">> \o MessageOr(rapidError)
                \o <<", AlphaAPI: ">> \o MessageOr(alphaError))
    ELSE IF alphaResult = <<>> THEN Selected(rapidResult[1], "RapidAPI")
    ELSE IF rapidResult = <<>> THEN Selected(alphaResult[1], "AlphaAPI")
    ELSE IF Usable(rapidResult[1].fastlink) THEN Selected(rapidResult[1], "RapidAPI")
    ELSE IF Usable(alphaResult[1].fastlink) THEN Selected(alphaResult[1], "AlphaAPI")
    ELSE IF Usable(rapidResult[1].link) THEN Selected(rapidResult[1], "RapidAPI")
    ELSE Selected(alphaResult[1], "AlphaAPI")

-----------------------------------------------------------------------------
(* Size formatting and the size gates *)

\* (n / d).toFixed(2) in hundredths: the nearest, ties upwards
toFixed2(n, d) == (n \div d) * 100 + ((n % d) * 100 + d \div 2) \div d

\* The text of a size: a string passed through, 'Unknown size', "NaN B", or
\* "<hundredths/100> <unit>"
AsIs(x) == [form |-> "as is", v |-> x.v, unit |-> x.unit]
UnknownSize == [form |-> "Unknown size", v |-> 0, unit |-> ""]
NaNBytes == [form |-> "NaN", v |-> 0, unit |-> "B"]
NoSizeText == [form |-> "", v |-> 0, unit |-> ""]

\* the while loop of formatFileSize, for sizes below 1024^3
Scaled(n) ==
    IF n < 1024 THEN [form |-> "fixed2", v |-> n * 100, unit |-> "B"]
    ELSE IF n < 1024 * 1024
         THEN [form |-> "fixed2", v |-> toFixed2(n, 1024), unit |-> "KB"]
         ELSE [form |-> "fixed2", v |-> toFixed2(n, 1024 * 1024), unit |-> "MB"]

Formatted(t) == [ok |-> TRUE, text |-> t]
TypeError == [ok |-> FALSE, text |-> NoSizeText]

\* TeraboxDownloader.formatFileSize
formatFileSize_Terabox(x) ==
    IF x.t = "string" /\ x.unit \in {"MB", "GB"} THEN Formatted(AsIs(x))
    ELSE IF Number(x).nan THEN Formatted(UnknownSize)
    ELSE Formatted(Scaled(x.v))

\* MultiPlatformDownloader.formatFileSize:
\*   typeof s === 'string' && s.includes('MB') || s.includes('GB')
\* calls includes on a value that is no string
formatFileSize_Multi(x) ==
    IF x.t = "string"
    THEN IF x.unit \in {"MB", "GB"} THEN Formatted(AsIs(x)) ELSE Formatted(NaNBytes)
    ELSE TypeError

\* a || b on size values
OrElse(a, b) == IF Truthy(a) THEN a ELSE b

\* TeraboxDownloader.handleDownload, the condition of the 50MB branch:
\*   Number(sizebytes) < 50MB ||
\*   (file_size && file_size.includes('MB') && parseFloat(file_size) < 50)
SizeGate_Terabox(d) ==
    IF Less(Number(d.sizebytes), Num(Bytes50MB)) THEN "DIRECT_RELAY"
    ELSE IF ~Truthy(d.file_size) THEN "LINK_ONLY"
    ELSE IF d.file_size.t # "string" THEN "TypeError"
    ELSE IF d.file_size.unit = "MB" /\ d.file_size.v < 50 * 10
         THEN "DIRECT_RELAY"
         ELSE "LINK_ONLY"

-----------------------------------------------------------------------------
(* Messages to the requester *)

\* one sendMessage / editMessageText / reply / sendDocument to the requester
Msg(kind, text) == [kind |-> kind, text |-> text, size |-> NoSizeText]
DetailsMsg(d, sizeText, provider, src, tail) ==
    [kind |-> "details",
     text |-> <<"File Name: ", d.file_name, "Source: ", provider, "API: ", src>>
              \o tail,
     size |-> sizeText]

\* catch (error) { editMessageText(`Download error: ${error.message}`) }
ErrorMsg(message) == Msg("error", <<"Download error: ">> \o message)

\* list.join(', ')
RECURSIVE Join(_)
Join(list) == IF Len(list) <= 1 THEN list
              ELSE <<Head(list), ", ">> \o Join(Tail(list))

hasDirectLink(d) == Usable(d.link)
hasFastLink(d) == Usable(d.fastlink)

Bots == {"TeraboxDownloader", "MultiPlatformDownloader", "TeraBoxVideoBot",
         "BumpChannelBot"}

-----------------------------------------------------------------------------
(* State machine *)

NoRequest ==
    /\ url = <<>>
    /\ rapidAPIResult = <<>> /\ alphaAPIResult = <<>>
    /\ rapidAPIError = <<>> /\ alphaAPIError = <<>>
    /\ fileDetails = <<>> /\ apiSource = "" /\ downloadLink = Undefined
    /\ gate = "" /\ outbox = <<>> /\ apiCalls = <<>> /\ downloads = <<>>

\* a percentage as Math.floor(a / b * 100) yields it: a number, Infinity or NaN
Percent(n) == [is |-> "finite", v |-> n]
Infinity == [is |-> "Infinity", v |-> 0]
NaNPercent == [is |-> "NaN", v |-> 0]

Pending == [state |-> "pending", by |-> "", message |-> ""]
NoPromise == [state |-> "none", by |-> "", message |-> ""]

\* no transfer has been started
NoTransfer ==
    /\ fileSize = 0 /\ now = 0 /\ lastUpdateTime = 0 /\ downloadedSize = 0
    /\ lastProgress = Percent(0) /\ reports = <<>> /\ chunks = 0
    /\ stream = "none" /\ writer = "none" /\ promise = NoPromise
    /\ timer = "none" /\ fin = "idle" /\ file = "absent" /\ archive = <<>>
    /\ unlinks = 0 /\ faults = {} /\ lateWrites = 0

\* msg.chat.id of the chats that talk to the bot: a user and a group
Chats == {7, -100}

\* chatId.toString(), `${chatId}`
chatIdString == [c \in Chats |-> IF c = 7 THEN "7" ELSE "-100"]

\* button: the button whose press started the download, <<>> if none did
NoDownload == [state |-> "none", link |-> Undefined, fileName |-> Undefined,
               path |-> <<>>, details |-> <<>>, button |-> <<>>]

\* nothing is stored, no button is on offer, no download has been started
NoContext ==
    /\ lastFileDetails = <<>>
    /\ fileDetailsMap = [k \in {chatIdString[c] : c \in Chats} |-> <<>>]
    /\ keyboards = [c \in Chats |-> {}]
    /\ transfers = [c \in Chats |-> NoDownload]
    /\ files = {}
    /\ settings = [value |-> "", text |-> <<>>]

\* no HTTP request has been made
NoCall == [call |-> "", timeout |-> 0, upstream |-> "", elapsed |-> 0,
           state |-> "none", message |-> ""]
\* URLSearchParams.get: null (<<>>) or the string; !x holds for null and ''
Present(x) == x # <<>> /\ x[1] # ""

\* x || fallback
ValueOr(x, fallback) == IF Present(x) THEN x[1] ELSE fallback

NoQuery == [token |-> <<>>, url |-> <<>>, name |-> <<>>, size |-> <<>>,
            source |-> <<>>, alt |-> <<>>]

\* the page as the HTML has it before the script runs; loaded and
\* tokenInStore record that the script has run and whether the token of the
\* query was a valid token when the page was requested
Markup(query) ==
    [loaded |-> FALSE, tokenInStore |-> FALSE, query |-> query,
     authError |-> "none",
     authErrorText |-> "Access denied. This player can only be accessed through the Telegram bot.",
     validContent |-> "none",
     fileName |-> "Loading...", fileSize |-> "Loading...", source |-> "Loading...",
     videoPlayer |-> "", downloadLink |-> "#",
     altDownloadLink |-> "none", altHref |-> "#"]

\* no button asking for a conversion has been pressed
NoConversion == [conversionType |-> "", outcome |-> "", finalFilePath |-> <<>>,
                 fileName |-> <<>>, sent |-> <<>>]

\* the process as the module is loaded: client.connect() is under way,
\* bot.launch() has not yet started to poll; saved and received record the
\* value of usersCollection each saveUser found and the state of the
\* connection each message arrived in
Loaded == [client |-> "connecting", launched |-> FALSE, process |-> "running",
           saved |-> {}, received |-> {}]

\* the bot is up: connected and polling
Up == [Loaded EXCEPT !.client = "connected", !.launched = TRUE]

NoOutside ==
    /\ chatMember = ""
    /\ conversion = NoConversion
    /\ usersCollection = "collection"
    /\ startup = Up
    /\ http = NoCall
    /\ page = Markup(NoQuery)
    /\ validTokens = {}
    /\ clock = 0
    /\ autoForwarding = TRUE
    /\ reply_to_message = "none"
    /\ bumpChannel = <<>>

Init ==
    /\ bot \in Bots
    /\ pc = "idle"
    /\ requests = 0
    /\ NoRequest
    /\ DUMP_CHANNEL_ID = FALSE
    /\ NoTransfer
    /\ NoContext
    /\ NoOutside

\* the locals of a fresh handler invocation
Fresh(text) ==
    /\ requests < MaxRequests
    /\ pc \in {"idle", "done"}
    /\ requests' = requests + 1
    /\ url' = text
    /\ rapidAPIResult' = <<>> /\ alphaAPIResult' = <<>>
    /\ rapidAPIError' = <<>> /\ alphaAPIError' = <<>>
    /\ fileDetails' = <<>> /\ apiSource' = "" /\ downloadLink' = Undefined
    /\ gate' = "" /\ apiCalls' = <<>> /\ downloads' = <<>>
    /\ UNCHANGED bot

\* the handler ends in its catch block with one error message
Caught(message) ==
    /\ outbox' = Append(outbox, ErrorMsg(message))
    /\ pc' = "done"

(* ---- TeraboxDownloader (src/unnamed/part_003) ---- *)

\* onText(/\/download (.+)/): handleDownload up to its first await
Terabox_Receive ==
    /\ bot = "TeraboxDownloader"
    /\ \E text \in Texts : Fresh(text)
    /\ outbox' = <<Msg("status", <<"Processing your request...">>)>>
    /\ pc' = "classify"
    /\ UNCHANGED <<transferVars, contextVars, outsideVars>>

\* getServiceProvider; then getBestTeraboxDetails issues the RapidAPI request
Terabox_Classify ==
    /\ bot = "TeraboxDownloader" /\ pc = "classify"
    /\ IF getServiceProvider(SUPPORTED_DOMAINS_Terabox, url) = Undefined
       THEN /\ Caught(<<"Unsupported URL. Please provide a Terabox link from one of the supported domains:\n">>
                      \o Join(SUPPORTED_DOMAINS_Terabox))
            /\ UNCHANGED apiCalls
       ELSE /\ apiCalls' = Append(apiCalls, [api |-> "RapidAPI", arg |-> url])
            /\ pc' = "rapid"
            /\ UNCHANGED outbox
    /\ UNCHANGED <<bot, requests, url, rapidAPIResult, alphaAPIResult,
                   rapidAPIError, alphaAPIError, fileDetails, apiSource,
                   downloadLink, gate, downloads>>
    /\ UNCHANGED <<transferVars, contextVars, outsideVars>>

\* handleDownload from the return of getBestTeraboxDetails to its next await
Terabox_Resolved(best) ==
    IF ~best.ok
    THEN /\ Caught(best.message)
         /\ UNCHANGED <<fileDetails, apiSource>>
    ELSE /\ fileDetails' = <<best.details>>
         /\ apiSource' = best.source
         /\ IF best.details.file_name = Undefined
            THEN Caught(<<"Invalid response from API. Could not get file details.">>)
            ELSE IF ~hasDirectLink(best.details) /\ ~hasFastLink(best.details)
            THEN Caught(<<"No download links available for this file.">>)
            ELSE /\ outbox' = Append(outbox,
                        DetailsMsg(best.details,
                            formatFileSize_Terabox(
                                OrElse(best.details.sizebytes, best.details.file_size)).text,
                            getServiceProvider(SUPPORTED_DOMAINS_Terabox, url),
                            best.source, <<"Starting download...">>))
                 /\ pc' = "starting"

\* a getBestTeraboxDetails that stops at the first adapter that returns
Terabox_RapidReturns_FirstOnly ==
    /\ bot = "TeraboxDownloader" /\ pc = "rapid"
    /\ \E ans \in RapidAnswers :
         LET call == fetchTeraboxDetailsFromRapidAPI(ans) IN
         /\ rapidAPIResult' = ResultOf(call)
         /\ rapidAPIError' = ErrorOf(call)
         /\ IF ResultOf(call) # <<>>
            THEN /\ Terabox_Resolved(Selected(ResultOf(call)[1], "RapidAPI"))
                 /\ UNCHANGED apiCalls
            ELSE /\ apiCalls' = Append(apiCalls,
                        [api |-> "AlphaAPI", arg |-> extractTeraboxId(url)])
                 /\ pc' = "alpha"
                 /\ UNCHANGED <<fileDetails, apiSource, outbox>>
    /\ UNCHANGED <<bot, requests, url, alphaAPIResult, alphaAPIError,
                   downloadLink, gate, downloads>>
    /\ UNCHANGED <<transferVars, contextVars, outsideVars>>

\* the RapidAPI adapter returns or throws; the AlphaAPI request is issued
Terabox_RapidReturns ==
    /\ bot = "TeraboxDownloader" /\ pc = "rapid"
    /\ \E ans \in RapidAnswers :
         LET call == fetchTeraboxDetailsFromRapidAPI(ans) IN
         /\ rapidAPIResult' = ResultOf(call)
         /\ rapidAPIError' = ErrorOf(call)
    /\ apiCalls' = Append(apiCalls, [api |-> "AlphaAPI", arg |-> extractTeraboxId(url)])
    /\ pc' = "alpha"
    /\ UNCHANGED <<bot, requests, url, alphaAPIResult, alphaAPIError, fileDetails,
                   apiSource, downloadLink, gate, outbox, downloads>>
    /\ UNCHANGED <<transferVars, contextVars, outsideVars>>

\* the AlphaAPI adapter returns or throws; getBestTeraboxDetails selects
Terabox_AlphaReturns ==
    /\ bot = "TeraboxDownloader" /\ pc = "alpha"
    /\ \E ans \in AlphaAnswers :
         LET call == fetchTeraboxDetailsFromAlphaAPI(ans) IN
         /\ alphaAPIResult' = ResultOf(call)
         /\ alphaAPIError' = ErrorOf(call)
         /\ Terabox_Resolved(getBestTeraboxDetails(rapidAPIResult, ResultOf(call),
                                                   rapidAPIError, ErrorOf(call)))
    /\ UNCHANGED <<bot, requests, url, rapidAPIResult, rapidAPIError, downloadLink,
                   gate, apiCalls, downloads>>
    /\ UNCHANGED <<transferVars, contextVars, outsideVars>>

\* after 'Starting download...': choose the link, announce the download
Terabox_ChooseLink ==
    /\ bot = "TeraboxDownloader" /\ pc = "starting"
    /\ downloadLink' = IF hasFastLink(fileDetails[1]) THEN fileDetails[1].fastlink
                       ELSE fileDetails[1].link
    /\ outbox' = Append(outbox,
            DetailsMsg(fileDetails[1],
                formatFileSize_Terabox(
                    OrElse(fileDetails[1].sizebytes, fileDetails[1].file_size)).text,
                getServiceProvider(SUPPORTED_DOMAINS_Terabox, url),
                apiSource, <<"Downloading file...">>))
    /\ pc' = "gate"
    \* the locals of getBestTeraboxDetails are gone
    /\ rapidAPIResult' = <<>> /\ alphaAPIResult' = <<>>
    /\ rapidAPIError' = <<>> /\ alphaAPIError' = <<>>
    /\ UNCHANGED <<bot, requests, url, fileDetails, apiSource, gate, apiCalls,
                   downloads>>
    /\ UNCHANGED <<transferVars, contextVars, outsideVars>>

\* the 50MB branch: download and send, or answer with the link
Terabox_Gate ==
    /\ bot = "TeraboxDownloader" /\ pc = "gate"
    /\ gate' = SizeGate_Terabox(fileDetails[1])
    /\ CASE gate' = "DIRECT_RELAY" ->
              /\ downloads' = Append(downloads, downloadLink)
              /\ pc' = "transfer"
              /\ UNCHANGED outbox
         [] gate' = "LINK_ONLY" ->
              /\ outbox' = Append(outbox,
                     Msg("link", <<"File is larger than 50MB. Use the direct download link:\n\n",
                                   downloadLink>>))
              /\ pc' = "done"
              /\ UNCHANGED downloads
         [] OTHER ->
              /\ Caught(<<"Download failed: ",
                          "fileDetails.file_size.includes is not a function">>)
              /\ UNCHANGED downloads
    /\ UNCHANGED <<bot, requests, url, rapidAPIResult, alphaAPIResult,
                   rapidAPIError, alphaAPIError, fileDetails, apiSource,
                   downloadLink, apiCalls>>
    /\ UNCHANGED <<transferVars, contextVars, outsideVars>>

\* downloadAndSendFile resolves: the file was written and sent
Terabox_Sent ==
    /\ bot = "TeraboxDownloader" /\ pc = "transfer"
    /\ outbox' = outbox \o
           <<Msg("progress", <<"Download complete! Sending file...">>),
             Msg("document", <<"File: ", fileDetails[1].file_name>>),
             Msg("progress", <<"File sent successfully!">>)>>
    /\ pc' = "done"
    /\ UNCHANGED <<bot, requests, url, rapidAPIResult, alphaAPIResult,
                   rapidAPIError, alphaAPIError, fileDetails, apiSource,
                   downloadLink, gate, apiCalls, downloads>>
    /\ UNCHANGED <<transferVars, contextVars, outsideVars>>

\* downloadAndSendFile rejects: catch (dlError) rethrows 'Download failed: ...'
Terabox_DownloadFails ==
    /\ bot = "TeraboxDownloader" /\ pc = "transfer"
    /\ \E cause \in TransportErrors : Caught(<<"Download failed: ", cause>>)
    /\ UNCHANGED <<bot, requests, url, rapidAPIResult, alphaAPIResult,
                   rapidAPIError, alphaAPIError, fileDetails, apiSource,
                   downloadLink, gate, apiCalls, downloads>>
    /\ UNCHANGED <<transferVars, contextVars, outsideVars>>

(* ---- MultiPlatformDownloader (src/index.js:71-658) ---- *)

\* const userPreference = 'auto'
userPreference == "auto"

Multi_Receive ==
    /\ bot = "MultiPlatformDownloader"
    /\ \E text \in Texts : Fresh(text)
    /\ outbox' = <<Msg("status", <<"Processing your request...">>)>>
    /\ pc' = "classify"
    /\ UNCHANGED <<transferVars, contextVars, outsideVars>>

\* getServiceProvider, the terabox.com / 1drv.ms branch, the first adapter call
Multi_Classify ==
    /\ bot = "MultiPlatformDownloader" /\ pc = "classify"
    /\ LET serviceProvider == getServiceProvider(SUPPORTED_DOMAINS_Multi, url) IN
       IF serviceProvider = Undefined
       THEN /\ Caught(<<"Unsupported URL. Please provide a link from one of the supported services:\n">>
                      \o Join(SUPPORTED_DOMAINS_Multi))
            /\ UNCHANGED apiCalls
       ELSE IF serviceProvider \notin {"terabox.com", "1drv.ms"}
       THEN /\ Caught(<<"Direct download from ", serviceProvider,
                        " is not yet implemented. Support for additional platforms coming soon!">>)
            /\ UNCHANGED apiCalls
       ELSE IF userPreference \in {"rapid", "auto"}
       THEN /\ apiCalls' = Append(apiCalls, [api |-> "RapidAPI", arg |-> url])
            /\ pc' = "rapid"
            /\ UNCHANGED outbox
       ELSE /\ apiCalls' = Append(apiCalls,
                                  [api |-> "AlphaAPI", arg |-> extractTeraboxId(url)])
            /\ pc' = "alpha"
            /\ UNCHANGED outbox
    /\ UNCHANGED <<bot, requests, url, rapidAPIResult, alphaAPIResult,
                   rapidAPIError, alphaAPIError, fileDetails, apiSource,
                   downloadLink, gate, downloads>>
    /\ UNCHANGED <<transferVars, contextVars, outsideVars>>

\* the download buttons offered with the details
Buttons(d) ==
    (IF hasFastLink(d) THEN <<"fast_original_">> ELSE <<>>)
    \o (IF ~hasFastLink(d) /\ hasDirectLink(d) THEN <<"direct_original_">> ELSE <<>>)

\* handleDownload from the adapter's return to the end of the handler
Multi_Resolved(d, src) ==
    /\ fileDetails' = <<d>>
    /\ apiSource' = src
    /\ pc' = "done"
    /\ LET sizeText == formatFileSize_Multi(OrElse(d.sizebytes, d.file_size)) IN
       outbox' = Append(outbox,
          IF d.file_name = Undefined
          THEN ErrorMsg(<<"Invalid response from API. Could not get file details.">>)
          ELSE IF ~sizeText.ok
          THEN ErrorMsg(IF OrElse(d.sizebytes, d.file_size).t = "undefined"
                        THEN <<"Cannot read properties of undefined (reading 'includes')">>
                        ELSE <<"sizeBytes.includes is not a function">>)
          ELSE IF ~hasDirectLink(d) /\ ~hasFastLink(d)
          THEN ErrorMsg(<<"No download links available for this file.">>)
          ELSE DetailsMsg(d, sizeText.text,
                          getServiceProvider(SUPPORTED_DOMAINS_Multi, url), src,
                          Buttons(d)))

\* the RapidAPI adapter returns or throws; in 'auto' a failure tries AlphaAPI
Multi_RapidReturns ==
    /\ bot = "MultiPlatformDownloader" /\ pc = "rapid"
    /\ \E ans \in RapidAnswers :
         LET call == fetchTeraboxDetailsFromRapidAPI(ans) IN
         /\ rapidAPIResult' = ResultOf(call)
         /\ rapidAPIError' = ErrorOf(call)
         /\ IF call.ok
            THEN /\ Multi_Resolved(call.value, "RapidAPI")
                 /\ UNCHANGED apiCalls
            ELSE /\ UNCHANGED <<fileDetails, apiSource>>
                 /\ IF userPreference = "auto"
                    THEN /\ apiCalls' = Append(apiCalls,
                                [api |-> "AlphaAPI", arg |-> extractTeraboxId(url)])
                         /\ pc' = "alpha"
                         /\ UNCHANGED outbox
                    ELSE /\ Caught(call.message)
                         /\ UNCHANGED apiCalls
    /\ UNCHANGED <<bot, requests, url, alphaAPIResult, alphaAPIError,
                   downloadLink, gate, downloads>>
    /\ UNCHANGED <<transferVars, contextVars, outsideVars>>

\* the AlphaAPI adapter returns or throws
Multi_AlphaReturns ==
    /\ bot = "MultiPlatformDownloader" /\ pc = "alpha"
    /\ \E ans \in AlphaAnswers :
         LET call == fetchTeraboxDetailsFromAlphaAPI(ans) IN
         /\ alphaAPIResult' = ResultOf(call)
         /\ alphaAPIError' = ErrorOf(call)
         /\ IF call.ok
            THEN Multi_Resolved(call.value, "AlphaAPI")
            ELSE /\ UNCHANGED <<fileDetails, apiSource>>
                 /\ IF userPreference = "auto"
                    THEN Caught(<<"Both APIs failed. RapidAPI: ">> \o rapidAPIError[1]
                                \o <<", AlphaAPI: ">> \o call.message)
                    ELSE Caught(call.message)
    /\ UNCHANGED <<bot, requests, url, rapidAPIResult, rapidAPIError,
                   downloadLink, gate, apiCalls, downloads>>
    /\ UNCHANGED <<transferVars, contextVars, outsideVars>>

(* ---- TeraBoxVideoBot (src/unnamed/part_001) ---- *)

\* sizes as the single-resolver bots' upstream may report them
VideoSizes == {NoSize} \cup HumanSizes \cup
              {NumSize(n) : n \in {0, 20000000, 50000000, 50000001, Bytes50MB,
                                   Bytes50MB + 1}}

\* response.data of alphaapis.org/terabox as TeraBoxVideoBot reads it
VideoBodies ==
    [success      : BOOLEAN,
     data         : BOOLEAN,
     downloadLink : Links("https://alpha/video"),
     filename     : {Undefined, "clip.mp4"},
     size         : VideoSizes]

NoVideoBody == [success |-> FALSE, data |-> FALSE, downloadLink |-> Undefined,
                filename |-> Undefined, size |-> NoSize]

VideoAnswers == [ok : {TRUE}, cause : {""}, body : VideoBodies] \cup
                [ok : {FALSE}, cause : TransportErrors, body : {NoVideoBody}]

\* getChatMember(...).status, or the call throws
MemberStatuses == {"member", "administrator", "creator", "left", "kicked", "throws"}

\* isUserMember with a catch block that lets the user through
isUserMember_FailsOpen(status) ==
    status \in {"member", "administrator", "creator", "throws"}

\* isUserMember: ["member", "administrator", "creator"].includes(status),
\* false when getChatMember throws
isUserMember(status) == status \in {"member", "administrator", "creator"}

\* text.trim()
RECURSIVE TrimLeft(_)
TrimLeft(s) == IF s # <<>> /\ Head(s) = " " THEN TrimLeft(Tail(s)) ELSE s
RECURSIVE TrimRight(_)
TrimRight(s) == IF s # <<>> /\ s[Len(s)] = " "
                THEN TrimRight(SubSeq(s, 1, Len(s) - 1)) ELSE s
Trim(s) == TrimRight(TrimLeft(s))

\* the longest run of [a-zA-Z0-9_-] lexemes s starts with
RECURSIVE IdRun(_)
IdRun(s) == IF s # <<>> /\ Head(s) \in IdLexemes
            THEN <<Head(s)>> \o IdRun(Tail(s)) ELSE <<>>

\* positions where /\/s\/([a-zA-Z0-9_-]+)/ matches
SlashSId(text) == {i \in 1..(Len(text) - 1) :
                     text[i] = "/s/" /\ text[i + 1] \in IdLexemes}

\* extractTeraboxId of the Telegraf bots:
\*   match = text.match(/\/s\/([a-zA-Z0-9_-]+)/); match ? match[1] : text.trim()
extractTeraboxId_Video(text) ==
    IF SlashSId(text) # {}
    THEN LET i == CHOOSE k \in SlashSId(text) : \A j \in SlashSId(text) : k <= j
         IN IdRun(SubSeq(text, i + 1, Len(text)))
    ELSE Trim(text)

\* parseInt(x, 10) || 0
parseIntOr0(x) ==
    CASE x.t = "number" -> x.v
      [] x.t = "string" -> x.v \div 10
      [] OTHER -> 0

Reply(text) == outbox' = Append(outbox, Msg("reply", text))

Video_Receive ==
    /\ bot = "TeraBoxVideoBot"
    /\ \E text \in Texts : Fresh(text)
    /\ outbox' = <<>>
    /\ pc' = "membership"
    /\ chatMember' = ""
    /\ UNCHANGED <<transferVars, contextVars, http, pageVars, forwardVars,
                   sideVars>>

\* isUserMember; saveUser
Video_Membership ==
    /\ bot = "TeraBoxVideoBot" /\ pc = "membership"
    /\ \E status \in MemberStatuses :
         /\ chatMember' = status
         /\ IF ~isUserMember(status)
            THEN /\ Reply(<<"You must join ", "@awt_bots", " to use this bot.">>)
                 /\ pc' = "done"
            ELSE /\ pc' = "extract"
                 /\ UNCHANGED outbox
    /\ UNCHANGED <<bot, requests, url, rapidAPIResult, alphaAPIResult,
                   rapidAPIError, alphaAPIError, fileDetails, apiSource,
                   downloadLink, gate, apiCalls, downloads>>
    /\ UNCHANGED <<transferVars, contextVars, http, pageVars, forwardVars,
                   sideVars>>

\* extractTeraboxId, the !videoId check, the resolver request
Video_Extract ==
    /\ bot = "TeraBoxVideoBot" /\ pc = "extract"
    /\ LET videoId == extractTeraboxId_Video(Trim(url)) IN
       IF videoId = <<>>
       THEN /\ Reply(<<"Invalid TeraBox link. Please send a correct link or ID.">>)
            /\ pc' = "done"
            /\ UNCHANGED apiCalls
       ELSE /\ Reply(<<"Fetching video link...">>)
            /\ apiCalls' = Append(apiCalls, [api |-> "AlphaAPI", arg |-> videoId])
            /\ pc' = "api"
    /\ UNCHANGED <<bot, requests, url, rapidAPIResult, alphaAPIResult,
                   rapidAPIError, alphaAPIError, fileDetails, apiSource,
                   downloadLink, gate, downloads>>
    /\ UNCHANGED <<transferVars, contextVars, outsideVars>>

\* fileSize > 50000000
SizeGate_Video(size) ==
    IF parseIntOr0(size) > 50000000 THEN "LINK_ONLY" ELSE "DIRECT_RELAY"

\* the resolver answers: checks, the size branch, the start of the download
Video_ApiReturns ==
    /\ bot = "TeraBoxVideoBot" /\ pc = "api"
    /\ \E ans \in VideoAnswers :
         IF ~ans.ok \/ (ans.body.success /\ ~ans.body.data)
         THEN /\ Reply(<<"Something went wrong. Try again later.">>)
              /\ pc' = "done"
              /\ UNCHANGED <<fileDetails, downloadLink, gate, downloads>>
         ELSE IF ~ans.body.success
         THEN /\ Reply(<<"Failed to fetch video. Please check the link.">>)
              /\ pc' = "done"
              /\ UNCHANGED <<fileDetails, downloadLink, gate, downloads>>
         ELSE /\ fileDetails' = <<[file_name |-> IF ans.body.filename = Undefined
                                                 THEN "video.mp4"
                                                 ELSE ans.body.filename,
                                   sizebytes |-> ans.body.size,
                                   file_size |-> ans.body.size,
                                   link      |-> ans.body.downloadLink,
                                   fastlink  |-> Undefined]>>
              /\ downloadLink' = ans.body.downloadLink
              /\ IF ans.body.downloadLink = Undefined
                 THEN /\ Reply(<<"No download link found.">>)
                      /\ pc' = "done"
                      /\ UNCHANGED <<gate, downloads>>
                 ELSE /\ gate' = SizeGate_Video(ans.body.size)
                      /\ IF gate' = "LINK_ONLY"
                         THEN /\ outbox' = Append(outbox,
                                    Msg("link", <<"Video is too large for Telegram! Download manually: ",
                                                  ans.body.downloadLink>>))
                              /\ pc' = "done"
                              /\ UNCHANGED downloads
                         ELSE /\ Reply(<<"Video found! Downloading (0%)...">>)
                              /\ downloads' = Append(downloads, ans.body.downloadLink)
                              /\ pc' = "transfer"
    /\ UNCHANGED <<bot, requests, url, rapidAPIResult, alphaAPIResult,
                   rapidAPIError, alphaAPIError, apiSource, apiCalls>>
    /\ UNCHANGED <<transferVars, contextVars, outsideVars>>

\* writer 'finish': the video is sent to the requester
Video_Sent ==
    /\ bot = "TeraBoxVideoBot" /\ pc = "transfer"
    /\ outbox' = outbox \o
           <<Msg("progress", <<"Download complete! Sending video...">>),
             Msg("document", <<fileDetails[1].file_name>>)>>
    /\ pc' = "done"
    /\ UNCHANGED <<bot, requests, url, rapidAPIResult, alphaAPIResult,
                   rapidAPIError, alphaAPIError, fileDetails, apiSource,
                   downloadLink, gate, apiCalls, downloads>>
    /\ UNCHANGED <<transferVars, contextVars, outsideVars>>

\* the stream request throws, or writer 'error'
Video_DownloadFails ==
    /\ bot = "TeraBoxVideoBot" /\ pc = "transfer"
    /\ \E text \in {<<"Something went wrong. Try again later.">>,
                    <<"Error downloading video.">>} : Reply(text)
    /\ pc' = "done"
    /\ UNCHANGED <<bot, requests, url, rapidAPIResult, alphaAPIResult,
                   rapidAPIError, alphaAPIError, fileDetails, apiSource,
                   downloadLink, gate, apiCalls, downloads>>
    /\ UNCHANGED <<transferVars, contextVars, outsideVars>>

(* ---- BumpChannelBot (src/index.js:677-1054) ---- *)

\* response.data of alphaapis.org/terabox as BumpChannelBot reads it
BumpBodies ==
    [success     : BOOLEAN,
     data        : BOOLEAN,
     direct_link : Links("https://alpha/video"),
     name        : {Undefined, "clip.mp4"},
     size        : VideoSizes]

NoBumpBody == [success |-> FALSE, data |-> FALSE, direct_link |-> Undefined,
               name |-> Undefined, size |-> NoSize]

BumpAnswers == [ok : {TRUE}, cause : {""}, body : BumpBodies] \cup
               [ok : {FALSE}, cause : TransportErrors, body : {NoBumpBody}]

\* fileInfo.size ? (fileInfo.size / (1024 * 1024)).toFixed(2) : 0, in
\* hundredths of a MB; the division of a string that is no number is NaN
fileSizeMB(size) ==
    IF ~Truthy(size) THEN Num(0)
    ELSE IF size.t = "number" THEN Num(toFixed2(size.v, 1024 * 1024))
    ELSE NaN

\* fileSizeMB > 50
SizeGate_Bump(size) ==
    IF Less(Num(50 * 100), fileSizeMB(size)) THEN "LINK_ONLY" ELSE "DIRECT_RELAY"

\* a text message, which may be a reply to an earlier message
Bump_Receive ==
    /\ bot = "BumpChannelBot"
    /\ \E text \in Texts : Fresh(text)
    /\ reply_to_message' \in {"none", "text", "document"}
    /\ bumpChannel' = <<>>
    /\ outbox' = <<>>
    /\ pc' = "membership"
    /\ chatMember' = ""
    /\ UNCHANGED <<transferVars, contextVars, http, pageVars, sideVars,
                   autoForwarding>>

\* isUserMember; saveUser
Bump_Membership ==
    /\ bot = "BumpChannelBot" /\ pc = "membership"
    /\ \E status \in MemberStatuses :
         /\ chatMember' = status
         /\ IF ~isUserMember(status)
            THEN /\ Reply(<<"You must join ", "@terao2", " to use this bot.">>)
                 /\ pc' = "done"
            ELSE /\ pc' = "extract"
                 /\ UNCHANGED outbox
    /\ UNCHANGED <<bot, requests, url, rapidAPIResult, alphaAPIResult,
                   rapidAPIError, alphaAPIError, fileDetails, apiSource,
                   downloadLink, gate, apiCalls, downloads>>
    /\ UNCHANGED <<transferVars, contextVars, http, pageVars, forwardVars,
                   sideVars>>

\* extractTeraboxId, the !videoId check, the resolver request
Bump_Extract ==
    /\ bot = "BumpChannelBot" /\ pc = "extract"
    /\ LET videoId == extractTeraboxId_Video(Trim(url)) IN
       IF videoId = <<>>
       THEN /\ Reply(<<"Invalid TeraBox link. Please send a correct link or ID.">>)
            /\ pc' = "done"
            /\ UNCHANGED apiCalls
       ELSE /\ Reply(<<"Fetching video link...">>)
            /\ apiCalls' = Append(apiCalls, [api |-> "AlphaAPI", arg |-> videoId])
            /\ pc' = "api"
    /\ UNCHANGED <<bot, requests, url, rapidAPIResult, alphaAPIResult,
                   rapidAPIError, alphaAPIError, fileDetails, apiSource,
                   downloadLink, gate, downloads>>
    /\ UNCHANGED <<transferVars, contextVars, outsideVars>>

\* the resolver answers: checks, then 'Sending video...'
Bump_ApiReturns ==
    /\ bot = "BumpChannelBot" /\ pc = "api"
    /\ \E ans \in BumpAnswers :
         IF ~ans.ok \/ (ans.body.success /\ ~ans.body.data)
         THEN /\ Reply(<<"Failed to process the link. Please try again later.">>)
              /\ pc' = "done"
              /\ UNCHANGED <<fileDetails, downloadLink>>
         ELSE IF ~ans.body.success
         THEN /\ Reply(<<"Failed to fetch video. Please check the link.">>)
              /\ pc' = "done"
              /\ UNCHANGED <<fileDetails, downloadLink>>
         ELSE /\ fileDetails' = <<[file_name |-> IF ans.body.name = Undefined
                                                 THEN "terabox_<videoId>"
                                                 ELSE ans.body.name,
                                   sizebytes |-> ans.body.size,
                                   file_size |-> ans.body.size,
                                   link      |-> ans.body.direct_link,
                                   fastlink  |-> Undefined]>>
              /\ downloadLink' = ans.body.direct_link
              /\ outbox' = Append(outbox, Msg("progress", <<"Sending video...">>))
              /\ pc' = "gate"
    /\ UNCHANGED <<bot, requests, url, rapidAPIResult, alphaAPIResult,
                   rapidAPIError, alphaAPIError, apiSource, gate, apiCalls,
                   downloads>>
    /\ UNCHANGED <<transferVars, contextVars, outsideVars>>

\* the size branch: the link, or replyWithDocument of the url
Bump_Gate ==
    /\ bot = "BumpChannelBot" /\ pc = "gate"
    /\ gate' = SizeGate_Bump(fileDetails[1].sizebytes)
    /\ IF gate' = "LINK_ONLY"
       THEN /\ outbox' = Append(outbox,
                   [kind |-> "link",
                    text |-> <<fileDetails[1].file_name, "Download Link:\n",
                               downloadLink, "Link valid for 4 hours.">>,
                    size |-> [form |-> "fixed2",
                              v |-> fileSizeMB(fileDetails[1].sizebytes).v,
                              unit |-> "MB"]])
            /\ pc' = "done"
       ELSE /\ pc' = "sending"
            /\ UNCHANGED outbox
    /\ UNCHANGED <<bot, requests, url, rapidAPIResult, alphaAPIResult,
                   rapidAPIError, alphaAPIError, fileDetails, apiSource,
                   downloadLink, apiCalls, downloads>>
    /\ UNCHANGED <<transferVars, contextVars, outsideVars>>

\* what forwardToBumpChannel sends to the channel
Forwarded(fileId, caption) == [file |-> fileId, caption |-> caption]

\* sentMsg = ctx.message.reply_to_message || ctx.message; sentMsg.document:
\* the text message of the requester has no document, a message it replies
\* to may have one
sentMsgDocument(reply) ==
    IF reply = "document" THEN <<"reply_to_message.document.file_id">> ELSE <<>>

\* if (autoForwarding) { ... forwardToBumpChannel(...) } in its try / catch
Bump_Forwards(ok) ==
    bumpChannel' = IF /\ autoForwarding
                      /\ sentMsgDocument(reply_to_message) # <<>>
                      /\ ok
                   THEN Append(bumpChannel,
                               Forwarded(sentMsgDocument(reply_to_message)[1],
                                         <<fileDetails[1].file_name,
                                           "Downloaded via @TeraBoxDLBot">>))
                   ELSE bumpChannel

\* replyWithDocument resolves; the forwarding to the bump channel
Bump_Sent ==
    /\ bot = "BumpChannelBot" /\ pc = "sending"
    /\ outbox' = Append(outbox,
           Msg("document", <<fileDetails[1].file_name, downloadLink>>))
    /\ \E ok \in BOOLEAN :
         /\ (~autoForwarding \/ sentMsgDocument(reply_to_message) = <<>>) => ok
         /\ Bump_Forwards(ok)
    /\ pc' = "done"
    /\ UNCHANGED <<bot, requests, url, rapidAPIResult, alphaAPIResult,
                   rapidAPIError, alphaAPIError, fileDetails, apiSource,
                   downloadLink, gate, apiCalls, downloads>>
    /\ UNCHANGED <<transferVars, contextVars, http, pageVars, sideVars,
                   chatMember, autoForwarding, reply_to_message>>

\* replyWithDocument throws: catch (sendError) falls back to the link
Bump_SendFails ==
    /\ bot = "BumpChannelBot" /\ pc = "sending"
    /\ outbox' = Append(outbox,
           Msg("fallback", <<"Could not send file directly.",
                             fileDetails[1].file_name, "Download Link:\n",
                             downloadLink, "Link valid for 4 hours.">>))
    /\ pc' = "done"
    /\ UNCHANGED <<bot, requests, url, rapidAPIResult, alphaAPIResult,
                   rapidAPIError, alphaAPIError, fileDetails, apiSource,
                   downloadLink, gate, apiCalls, downloads>>
    /\ UNCHANGED <<transferVars, contextVars, outsideVars>>

Next ==
    \/ Terabox_Receive
    \/ Terabox_Classify
    \/ Terabox_RapidReturns
    \/ Terabox_AlphaReturns
    \/ Terabox_ChooseLink
    \/ Terabox_Gate
    \/ Terabox_Sent
    \/ Terabox_DownloadFails
    \/ Multi_Receive
    \/ Multi_Classify
    \/ Multi_RapidReturns
    \/ Multi_AlphaReturns
    \/ Video_Receive
    \/ Video_Membership
    \/ Video_Extract
    \/ Video_ApiReturns
    \/ Video_Sent
    \/ Video_DownloadFails
    \/ Bump_Receive
    \/ Bump_Membership
    \/ Bump_Extract
    \/ Bump_ApiReturns
    \/ Bump_Gate
    \/ Bump_Sent
    \/ Bump_SendFails

Spec == Init /\ [][Next]_vars

-----------------------------------------------------------------------------
(* The transfer of one file: streamed download, progress updates, watchdog, *)
(* delivery to the requester, copy to the dump channel, removal of the file *)

\* 'data' events of one transfer
MaxChunks == 3

\* The code that downloads and delivers a file:
\*   TeraboxDownloader       part_003  handleDownload:338-361, downloadAndSendFile
\*   MultiPlatformDownloader index.js  handleDownloadCallback, downloadFile
\*   TeraboxDownloader_002   part_002  callback_query handler, downloadFile
\*   TeraboxDownloader_004   part_004  callback_query handler, downloadFile
\*   TeraBoxVideoBot         part_001  bot.on("text"):81-136
\*   TeraBoxVideoBot_005     part_005  bot.on("text"):174-264
TransferBots == {"TeraboxDownloader", "MultiPlatformDownloader",
                 "TeraboxDownloader_002", "TeraboxDownloader_004",
                 "TeraBoxVideoBot", "TeraBoxVideoBot_005"}

\* the handlers of callback_query that await downloadFile
CallbackBots == {"MultiPlatformDownloader", "TeraboxDownloader_002",
                 "TeraboxDownloader_004"}

\* the Telegraf handlers: listeners on the streams, no promise
StreamBots == {"TeraBoxVideoBot", "TeraBoxVideoBot_005"}

\* setTimeout(..., 300000) and setTimeout(..., 600000), in seconds
WatchdogSeconds_Terabox == 300
WatchdogSeconds_Multi == 600

WatchdogBots == {"TeraboxDownloader", "MultiPlatformDownloader"}
WatchdogSeconds ==
    IF bot = "MultiPlatformDownloader" THEN WatchdogSeconds_Multi
    ELSE WatchdogSeconds_Terabox

\* now - lastUpdateTime > 3000, in seconds
ProgressSeconds == 3

\* progress >= lastProgress + 10
ProgressStep == 10

\* chunk.length of a 'data' event, the seconds since the event before it, and
\* the size the resolver declared (0: none)
ChunkLengths == {10, 25}
Delays == {0, 3, 4}
DeclaredSizes == {0, 40, 100}

\* The chunk lengths and delays that make a difference to the bot: the
\* callback handlers have no 'data' listener, downloadAndSendFile looks at
\* the time only, the Telegraf listeners at the bytes only
LengthsOf(b) == IF b \in StreamBots THEN ChunkLengths ELSE {10}
DelaysOf(b) ==
    CASE b \in CallbackBots -> {0}
      [] b \in StreamBots -> {0, 4}
      [] OTHER -> Delays

\* the descriptor the transfer is started for
TransferDetails ==
    [file_name |-> "clip.mp4", sizebytes |-> NumSize(20000000),
     file_size |-> NoSize, link |-> "https://rapid/direct",
     fastlink |-> "https://rapid/fast"]

\* Math.floor((downloadedSize / totalSize) * 100)
floorPercent(downloaded, total) ==
    IF total # 0 THEN Percent((downloaded * 100) \div total)
    ELSE IF downloaded = 0 THEN NaNPercent ELSE Infinity

\* p + n
Plus(p, n) == IF p.is = "finite" THEN Percent(p.v + n) ELSE p

\* a >= b: false when either side is NaN
GreaterEq(a, b) ==
    CASE a.is = "NaN" \/ b.is = "NaN" -> FALSE
      [] a.is = "Infinity" -> TRUE
      [] b.is = "Infinity" -> FALSE
      [] OTHER -> a.v >= b.v

\* a progress update: when, what it shows, whether the edit succeeded
Report(t, value, ok) == [at |-> t, value |-> value, ok |-> ok]
Bytes(n) == [is |-> "bytes", v |-> n]

\* a listener that takes the percentage of the chunk alone and does not
\* look at the last update
onData_PerChunk(chunkLength, downloaded, total, last) ==
    LET progress == floorPercent(chunkLength, total) IN
    [downloadedSize |-> downloaded + chunkLength,
     update |-> GreaterEq(progress, Percent(ProgressStep)),
     value |-> progress, lastProgress |-> progress]

\* the 'data' listener of the Telegraf bots, up to its await:
\*   downloadedSize += chunk.length; progress = floor(downloadedSize/totalSize*100);
\*   if (progress >= lastProgress + 10) { lastProgress = progress; edit }
onData_Percent(chunkLength, downloaded, total, last) ==
    LET progress == floorPercent(downloaded + chunkLength, total) IN
    IF GreaterEq(progress, Plus(last, ProgressStep))
    THEN [downloadedSize |-> downloaded + chunkLength, update |-> TRUE,
          value |-> progress, lastProgress |-> progress]
    ELSE [downloadedSize |-> downloaded + chunkLength, update |-> FALSE,
          value |-> progress, lastProgress |-> last]

\* the 'data' listener of downloadAndSendFile:
\*   totalBytes += chunk.length;
\*   if (now - lastUpdateTime > 3000) { edit; lastUpdateTime = now }
onData_Timed(chunkLength, totalBytes, t, lastUpdate) ==
    IF t - lastUpdate > ProgressSeconds
    THEN [downloadedSize |-> totalBytes + chunkLength, update |-> TRUE,
          value |-> Bytes(totalBytes + chunkLength), lastUpdateTime |-> t]
    ELSE [downloadedSize |-> totalBytes + chunkLength, update |-> FALSE,
          value |-> Bytes(totalBytes + chunkLength), lastUpdateTime |-> lastUpdate]

\* a failed progress update that destroys the stream
ProgressErrorAborts(streamState) == "ended"

\* .catch(err => console.error(...)) / catch (error) { console.error(...) }:
\* what a failed progress update does to the stream
afterProgressError(streamState) == streamState

\* resolve / reject of the promise; a settled promise stays as it is
Settle(p, state, by, message) ==
    IF p.state = "pending" THEN [state |-> state, by |-> by, message |-> message]
    ELSE p

\* the caller has been given the outcome of the transfer
OutcomeReported == promise.state \in {"resolved", "rejected"}

\* what the transfer was started for stays as it is
fixedVars == <<bot, requestVars, DUMP_CHANNEL_ID, contextVars, outsideVars>>

\* the handler is about to download the file of a resolved descriptor
TransferInit ==
    /\ bot \in TransferBots
    /\ pc = "transfer"
    /\ requests = 1
    /\ url = <<>>
    /\ rapidAPIResult = <<>> /\ alphaAPIResult = <<>>
    /\ rapidAPIError = <<>> /\ alphaAPIError = <<>>
    /\ fileDetails = <<TransferDetails>> /\ apiSource = "RapidAPI"
    /\ downloadLink = TransferDetails.fastlink
    /\ gate = "DIRECT_RELAY" /\ outbox = <<>> /\ apiCalls = <<>>
    /\ downloads = <<TransferDetails.fastlink>>
    /\ DUMP_CHANNEL_ID \in BOOLEAN
    /\ NoTransfer
    /\ NoContext
    /\ NoOutside

\* error.message of a rejected Telegram API call, of a failed write
SinkError == "ETELEGRAM: 400 Bad Request"
WriteError == "ENOSPC: no space left on device"

\* the message of the handler's catch block
ErrorReport(message) ==
    CASE bot = "TeraboxDownloader" -> ErrorMsg(<<"Download failed: ", message>>)
      [] bot = "TeraboxDownloader_002" -> Msg("toast", <<"Download failed: ", message>>)
      [] bot \in StreamBots -> Msg("error", <<"Something went wrong. Try again later.">>)
      [] OTHER -> Msg("error", <<"Download failed: ", message>>)

\* what the requester is told before the stream is requested
StartMessages ==
    CASE bot = "MultiPlatformDownloader" ->
            <<Msg("status", <<"Starting download, please wait...">>),
              Msg("status", <<"Downloading file...">>)>>
      [] bot = "TeraboxDownloader_004" ->
            <<Msg("status", <<"Starting download, please wait...">>)>>
      [] bot \in StreamBots ->
            <<Msg("progress", <<"Video found! Downloading (0%)...">>)>>
      [] OTHER -> <<>>

\* axios({url: downloadLink, responseType: 'stream'}) returns or rejects;
\* createWriteStream, pipe, the listeners and the watchdog are set up
Transfer_Start ==
    /\ pc = "transfer" /\ stream = "none"
    /\ \E size \in (IF bot \in StreamBots THEN DeclaredSizes ELSE {0}) :
         fileSize' = size
    /\ \E answer \in {"response"} \cup TransportErrors :
         IF answer = "response"
         THEN /\ stream' = "flowing" /\ writer' = "open" /\ file' = "present"
              /\ promise' = IF bot \in StreamBots THEN NoPromise ELSE Pending
              /\ timer' = IF bot \in WatchdogBots THEN "armed" ELSE "none"
              /\ lastUpdateTime' = now
              /\ pc' = IF bot \in StreamBots THEN "returned" ELSE "awaiting"
              /\ outbox' = outbox \o StartMessages
              /\ UNCHANGED faults
         ELSE /\ outbox' = Append(outbox \o StartMessages, ErrorReport(answer))
              /\ pc' = "done"
              /\ faults' = faults \cup {"connect"}
              /\ UNCHANGED <<stream, writer, file, promise, timer, lastUpdateTime>>
    /\ UNCHANGED <<fixedVars, now, downloadedSize, lastProgress, reports, chunks,
                   fin, archive, unlinks, lateWrites>>

\* response.data emits 'data': pipe writes the chunk, the listener counts it
\* and may update the progress message
Stream_Data ==
    /\ stream = "flowing" /\ chunks < MaxChunks
    /\ \E n \in LengthsOf(bot), dt \in DelaysOf(bot), ok \in BOOLEAN :
         LET t == now + dt
             d == IF bot \in StreamBots
                  THEN onData_Percent(n, downloadedSize, fileSize, lastProgress)
                  ELSE onData_Timed(n, downloadedSize, t, lastUpdateTime)
             update == bot \in StreamBots \cup {"TeraboxDownloader"} /\ d.update
         IN
         /\ timer = "armed" => t <= WatchdogSeconds
         /\ update \/ ok
         /\ now' = t
         /\ chunks' = chunks + 1
         /\ downloadedSize' = d.downloadedSize
         /\ lastProgress' = IF bot \in StreamBots THEN d.lastProgress ELSE lastProgress
         /\ lastUpdateTime' = IF bot = "TeraboxDownloader" THEN d.lastUpdateTime
                              ELSE lastUpdateTime
         /\ reports' = IF update THEN Append(reports, Report(t, d.value, ok))
                       ELSE reports
         /\ faults' = IF update /\ ~ok THEN faults \cup {"progress"} ELSE faults
         /\ stream' = IF update /\ ~ok THEN afterProgressError(stream) ELSE stream
         /\ lateWrites' = IF OutcomeReported THEN lateWrites + n ELSE lateWrites
    /\ UNCHANGED <<fixedVars, pc, outbox, fileSize, writer, promise, timer, fin,
                   file, archive, unlinks>>

\* response.data ends; the writer flushes and emits 'finish'
Stream_End ==
    /\ stream = "flowing" /\ writer = "open"
    /\ stream' = "ended" /\ writer' = "finished" /\ fin' = "finish"
    /\ UNCHANGED <<fixedVars, pc, outbox, fileSize, now, lastUpdateTime,
                   downloadedSize, lastProgress, reports, chunks, promise, timer,
                   file, archive, unlinks, faults, lateWrites>>

\* the writer emits 'error': reject, or the reply of the Telegraf bots
Writer_Error ==
    /\ stream = "flowing" /\ writer = "open"
    /\ writer' = "errored" /\ stream' = "ended"
    /\ promise' = Settle(promise, "rejected", "error", WriteError)
    /\ faults' = faults \cup {"write"}
    /\ outbox' = IF bot \in StreamBots
                 THEN Append(outbox, Msg("error", <<"Error downloading video.">>))
                 ELSE outbox
    /\ UNCHANGED <<fixedVars, pc, fileSize, now, lastUpdateTime, downloadedSize,
                   lastProgress, reports, chunks, timer, fin, file, archive,
                   unlinks, lateWrites>>

\* the setTimeout callback of downloadFile / downloadAndSendFile:
\*   existsSync ? (statSync.size > 0 ? resolve(filePath) : reject) : reject
Watchdog ==
    /\ timer = "armed"
    /\ timer' = "fired"
    /\ now' = IF now < WatchdogSeconds THEN WatchdogSeconds ELSE now
    /\ promise' =
         IF file = "present"
         THEN IF downloadedSize > 0
              THEN Settle(promise, "resolved", "watchdog", "")
              ELSE Settle(promise, "rejected", "watchdog",
                          "Download timed out or empty file")
         ELSE Settle(promise, "rejected", "watchdog",
                     "Download failed - no file created")
    /\ faults' = IF promise.state = "pending" THEN faults \cup {"timeout"}
                 ELSE faults
    /\ UNCHANGED <<fixedVars, pc, outbox, fileSize, lastUpdateTime, downloadedSize,
                   lastProgress, reports, chunks, stream, writer, fin, file,
                   archive, unlinks, lateWrites>>

\* downloadFile: writer.on('finish', () => resolve(filePath))
DownloadFile_Finish ==
    /\ bot \in CallbackBots /\ fin = "finish"
    /\ promise' = Settle(promise, "resolved", "finish", "")
    /\ fin' = "returned"
    /\ UNCHANGED <<fixedVars, pc, outbox, fileSize, now, lastUpdateTime,
                   downloadedSize, lastProgress, reports, chunks, stream, writer,
                   timer, file, archive, unlinks, faults, lateWrites>>

\* downloadAndSendFile: the async 'finish' listener, one await at a time:
\* editMessageText, sendDocument, editMessageText, resolve(filePath).  A
\* rejected await ends the listener; nothing catches it
DownloadAndSendFile_Finish ==
    /\ bot = "TeraboxDownloader" /\ fin \in {"finish", "send", "edit"}
    /\ \E ok \in BOOLEAN :
         /\ (fin = "send" /\ file # "present") => ~ok
         /\ IF ok
            THEN /\ CASE fin = "finish" ->
                         /\ outbox' = Append(outbox,
                               Msg("progress", <<"Download complete! Sending file...">>))
                         /\ fin' = "send"
                         /\ UNCHANGED promise
                   [] fin = "send" ->
                         /\ outbox' = Append(outbox,
                               Msg("document", <<"File: ", fileDetails[1].file_name>>))
                         /\ fin' = "edit"
                         /\ UNCHANGED promise
                   [] fin = "edit" ->
                         /\ outbox' = Append(outbox,
                               Msg("progress", <<"File sent successfully!">>))
                         /\ fin' = "returned"
                         /\ promise' = Settle(promise, "resolved", "finish", "")
                 /\ UNCHANGED faults
            ELSE /\ fin' = "threw"
                 /\ faults' = faults \cup {IF fin = "send" THEN "send" ELSE "edit"}
                 /\ UNCHANGED <<outbox, promise>>
    /\ UNCHANGED <<fixedVars, pc, fileSize, now, lastUpdateTime, downloadedSize,
                   lastProgress, reports, chunks, stream, writer, timer, file,
                   archive, unlinks, lateWrites>>

\* the Telegraf bots: the async 'finish' listener, one await at a time:
\* editMessageText, (part_005: sendToDumpChannel,) replyWithVideo, unlinkSync.
\* A rejected await ends the listener; nothing catches it.  sendToDumpChannel
\* catches its own failure and tells the requester
Video_Finish ==
    /\ bot \in StreamBots /\ fin \in {"finish", "dump", "send", "unlink"}
    /\ \E ok \in BOOLEAN :
         CASE fin = "finish" ->
                /\ IF ok
                   THEN /\ outbox' = Append(outbox,
                              Msg("progress", <<"Download complete! Sending video...">>))
                        /\ fin' = IF bot = "TeraBoxVideoBot_005" THEN "dump" ELSE "send"
                        /\ UNCHANGED faults
                   ELSE /\ fin' = "threw"
                        /\ faults' = faults \cup {"edit"}
                        /\ UNCHANGED outbox
                /\ UNCHANGED <<archive, unlinks, file>>
           [] fin = "dump" ->
                /\ DUMP_CHANNEL_ID \/ ok
                /\ IF ~DUMP_CHANNEL_ID
                   THEN UNCHANGED <<archive, outbox, faults>>
                   ELSE IF ok
                   THEN /\ archive' = Append(archive,
                              Msg("video", <<"File: ", fileDetails[1].file_name>>))
                        /\ UNCHANGED <<outbox, faults>>
                   ELSE /\ outbox' = Append(outbox,
                              Msg("warning", <<"Could not save to dump channel, but sending you the file directly.">>))
                        /\ faults' = faults \cup {"archive"}
                        /\ UNCHANGED archive
                /\ fin' = "send"
                /\ UNCHANGED <<unlinks, file>>
           [] fin = "send" ->
                /\ IF ok
                   THEN /\ outbox' = Append(outbox,
                              Msg("video", <<"File: ", fileDetails[1].file_name>>))
                        /\ fin' = "unlink"
                        /\ UNCHANGED faults
                   ELSE /\ fin' = "threw"
                        /\ faults' = faults \cup {"send"}
                        /\ UNCHANGED outbox
                /\ UNCHANGED <<archive, unlinks, file>>
           [] fin = "unlink" ->
                /\ ok
                /\ unlinks' = unlinks + 1
                /\ file' = "removed"
                /\ fin' = "returned"
                /\ UNCHANGED <<outbox, archive, faults>>
    /\ UNCHANGED <<fixedVars, pc, fileSize, now, lastUpdateTime, downloadedSize,
                   lastProgress, reports, chunks, stream, writer, promise, timer,
                   lateWrites>>

\* the await of downloadFile / downloadAndSendFile returns or throws
Handler_Resumes ==
    /\ bot \in CallbackBots \cup {"TeraboxDownloader"}
    /\ pc = "awaiting" /\ OutcomeReported
    /\ IF promise.state = "rejected"
       THEN /\ outbox' = Append(outbox, ErrorReport(promise.message))
            /\ pc' = "done"
       ELSE /\ pc' = IF bot = "TeraboxDownloader" THEN "dump" ELSE "send"
            /\ UNCHANGED outbox
    /\ UNCHANGED <<fixedVars, transferVars>>

\* the callback handlers: sendDocument(chatId, filePath)
Callback_SendToUser ==
    /\ bot \in CallbackBots /\ pc = "send"
    /\ \E ok \in BOOLEAN :
         LET told == IF bot = "MultiPlatformDownloader"
                     THEN Append(outbox, Msg("status", <<"Uploading file to Telegram...">>))
                     ELSE outbox
         IN
         /\ file # "present" => ~ok
         /\ IF ok
            THEN /\ outbox' = Append(told,
                       Msg("document", <<"File: ", fileDetails[1].file_name>>))
                 /\ pc' = "dump"
                 /\ UNCHANGED faults
            ELSE /\ outbox' = Append(told, ErrorReport(SinkError))
                 /\ pc' = "done"
                 /\ faults' = faults \cup {"send"}
    /\ UNCHANGED <<fixedVars, fileSize, now, lastUpdateTime, downloadedSize,
                   lastProgress, reports, chunks, stream, writer, promise, timer,
                   fin, file, archive, unlinks, lateWrites>>

\* the size line of the dump channel caption
DumpCaption ==
    CASE bot = "MultiPlatformDownloader" -> formatFileSize_Multi(NumSize(downloadedSize))
      [] bot = "TeraboxDownloader" -> formatFileSize_Terabox(NumSize(downloadedSize))
      [] OTHER -> Formatted(Scaled(fileDetails[1].sizebytes.v))

\* if (DUMP_CHANNEL_ID) sendDocument(DUMP_CHANNEL_ID, filePath, {caption}):
\* inside try/catch, except in part_002, where a failure reaches the catch
\* block of the handler
Handler_Dump ==
    /\ bot \in CallbackBots \cup {"TeraboxDownloader"} /\ pc = "dump"
    /\ \E ok \in BOOLEAN :
         LET sent == DUMP_CHANNEL_ID /\ ok
             after == IF bot = "TeraboxDownloader_002" THEN "notify" ELSE "unlink"
         IN
         /\ (~DUMP_CHANNEL_ID \/ ~DumpCaption.ok \/ file # "present") => ~ok
         /\ archive' = IF sent
                       THEN Append(archive,
                               [kind |-> "document",
                                text |-> <<"File Name: ", fileDetails[1].file_name>>,
                                size |-> DumpCaption.text])
                       ELSE archive
         /\ faults' = IF DUMP_CHANNEL_ID /\ ~ok THEN faults \cup {"archive"}
                      ELSE faults
         /\ IF DUMP_CHANNEL_ID /\ ~ok /\ bot = "TeraboxDownloader_002"
            THEN /\ outbox' = Append(outbox, ErrorReport(SinkError))
                 /\ pc' = "done"
            ELSE /\ pc' = after
                 /\ UNCHANGED outbox
    /\ UNCHANGED <<fixedVars, fileSize, now, lastUpdateTime, downloadedSize,
                   lastProgress, reports, chunks, stream, writer, promise, timer,
                   fin, file, unlinks, lateWrites>>

\* try { fs.unlinkSync(filePath) } catch (unlinkError) { console.error(...) }
Handler_Cleanup ==
    /\ bot \in CallbackBots \cup {"TeraboxDownloader"} /\ pc = "unlink"
    /\ unlinks' = unlinks + 1
    /\ file' = "removed"
    /\ pc' = IF bot = "TeraboxDownloader" THEN "done" ELSE "notify"
    /\ UNCHANGED <<fixedVars, outbox, fileSize, now, lastUpdateTime,
                   downloadedSize, lastProgress, reports, chunks, stream, writer,
                   promise, timer, fin, archive, faults, lateWrites>>

\* the callback handlers tell the requester that the download is complete
Callback_Notify ==
    /\ bot \in CallbackBots /\ pc = "notify"
    /\ outbox' = Append(outbox,
          IF bot = "TeraboxDownloader_002"
          THEN Msg("toast", <<"download successful!">>)
          ELSE Msg("success", <<"Download completed successfully!">>))
    /\ pc' = "done"
    /\ UNCHANGED <<fixedVars, transferVars>>

TransferNext ==
    \/ Transfer_Start
    \/ Stream_Data
    \/ Stream_End
    \/ Writer_Error
    \/ Watchdog
    \/ DownloadFile_Finish
    \/ DownloadAndSendFile_Finish
    \/ Video_Finish
    \/ Handler_Resumes
    \/ Callback_SendToUser
    \/ Handler_Dump
    \/ Handler_Cleanup
    \/ Callback_Notify

TransferSpec == TransferInit /\ [][TransferNext]_vars

-----------------------------------------------------------------------------
(* Requests and downloads of several chats: the descriptor kept for the     *)
(* download buttons, the buttons, the local path of each download           *)

\* TeraboxDownloader_002 is src/unnamed/part_002, TeraboxDownloader_004 is
\* src/unnamed/part_004; they and MultiPlatformDownloader download when a
\* button is pressed, the other two as part of the handler of the message
SessionBots == {"TeraboxDownloader_002", "TeraboxDownloader_004",
                "MultiPlatformDownloader", "TeraboxDownloader",
                "TeraBoxVideoBot"}
ButtonBots == {"TeraboxDownloader_002", "TeraboxDownloader_004",
               "MultiPlatformDownloader"}

\* the link each chat asks for
UrlOf == [c \in Chats |->
            IF c = 7 THEN <<"https://", "terabox.com", "/s/", "1", "AbC123">>
            ELSE <<"https://", "terabox.com", "/sharing/link", "?surl=", "world">>]

\* file names of upstream answers, and their characters: runs of [a-z0-9.]
\* and single other characters
FileNames == {"my  clip.mp4", "my_clip.mp4"}
Characters(fileName) ==
    CASE fileName = "my  clip.mp4" -> <<"my", " ", " ", "clip", ".mp4">>
      [] fileName = "my_clip.mp4" -> <<"my", "_", "clip", ".mp4">>
      [] fileName = "video.mp4" -> <<"video", ".mp4">>
      [] fileName = "movie.mkv" -> <<"movie", ".mkv">>

\* .replace(/__+/g, '_')
RECURSIVE Squeeze(_)
Squeeze(s) == IF Len(s) <= 1 THEN s
              ELSE IF s[1] = "_" /\ s[2] = "_" THEN Squeeze(Tail(s))
              ELSE <<s[1]>> \o Squeeze(Tail(s))

\* fileName.replace(/[^a-z0-9.]/gi, '_').replace(/__+/g, '_')
safeFileName(fileName) ==
    LET s == Characters(fileName) IN
    Squeeze([i \in 1..Len(s) |-> IF s[i] \in {" ", "_", "-"} THEN "_" ELSE s[i]])

\* path.join(DOWNLOAD_DIR, safeFileName); fs.createWriteStream(fileName) of
\* TeraBoxVideoBot takes the name as it is
filePath(b, fileName) ==
    IF b = "TeraBoxVideoBot" THEN Characters(fileName)
    ELSE <<"downloads", "/">> \o safeFileName(fileName)

\* response.data of the resolver, with a size the handler of bot b formats
\* without an error and sends directly
SessionBodies(b) ==
    [file_name : {Undefined} \cup FileNames,
     sizebytes : {IF b = "MultiPlatformDownloader" THEN NoSize
                  ELSE NumSize(20000000)},
     file_size : {IF b = "MultiPlatformDownloader" THEN StrSize(120, "MB")
                  ELSE NoSize},
     link      : Links("https://rapid/direct"),
     fastlink  : Links("https://rapid/fast")]

\* what AlphaAPI answers when MultiPlatformDownloader falls back to it
SessionAlphaAnswers ==
    {[ok |-> FALSE, cause |-> "timeout of 10000ms exceeded", body |-> NoAlphaBody],
     [ok |-> TRUE, cause |-> "",
      body |-> [status |-> "success", data |-> TRUE, file_name |-> "my_clip.mp4",
                file_size |-> StrSize(120, "MB"),
                download_url |-> "https://alpha/download"]]}

\* { ...fileDetails, originalUrl: url, serviceProvider, apiSource }
Stored(d, originalUrl, serviceProvider, src) ==
    [file_name |-> d.file_name, sizebytes |-> d.sizebytes,
     file_size |-> d.file_size, link |-> d.link, fastlink |-> d.fastlink,
     originalUrl |-> originalUrl, serviceProvider |-> serviceProvider,
     apiSource |-> src]

\* a button: its callback_data as data.split('_') takes it apart, and the
\* link of the descriptor it was made for
Button(data, link) == [data |-> data, link |-> link]

callback_data_002(d) ==
    (IF d.link # NA
     THEN {Button(<<"direct", "download", d.file_name>>, d.link)} ELSE {})
    \cup (IF d.fastlink # NA
          THEN {Button(<<"fast", "download", d.file_name>>, d.fastlink)} ELSE {})

\* videoExtensions.includes(path.extname(file_name).toLowerCase()); the
\* descriptors of the resolvers have no file_type
isLikelyVideo(d) ==
    LET s == Characters(d.file_name) IN
    Len(s) > 1 /\ s[Len(s)] \in {".mp4", ".mkv", ".avi", ".mov", ".wmv", ".flv",
                                 ".webm", ".m4v", ".3gp"}

\* index.js: 'Download Original' with the fast link, or with the direct link
\* when there is no fast link, and 'Download & Convert to MP4' for a video
callback_data(d, chatId) ==
    (IF hasFastLink(d)
     THEN {Button(<<"fast", "original", chatIdString[chatId], d.file_name>>,
                  d.fastlink)}
     ELSE {})
    \cup (IF ~hasFastLink(d) /\ hasDirectLink(d)
          THEN {Button(<<"direct", "original", chatIdString[chatId], d.file_name>>,
                       d.link)}
          ELSE {})
    \cup (IF isLikelyVideo(d)
          THEN {Button(<<IF hasFastLink(d) THEN "fast" ELSE "direct", "mp4",
                         chatIdString[chatId], d.file_name>>,
                       IF hasFastLink(d) THEN d.fastlink ELSE d.link)}
          ELSE {})

\* part_004: `direct_${chatId}_${name}` and `fast_${chatId}_${name}`
callback_data_004(d, chatId) ==
    (IF hasDirectLink(d)
     THEN {Button(<<"direct", chatIdString[chatId], d.file_name>>, d.link)}
     ELSE {})
    \cup (IF hasFastLink(d)
          THEN {Button(<<"fast", chatIdString[chatId], d.file_name>>, d.fastlink)}
          ELSE {})

InFlight == {"requested", "writing", "sending"}

SessionInit ==
    /\ bot \in SessionBots
    /\ pc = "session"
    /\ requests = 0
    /\ NoRequest
    /\ DUMP_CHANNEL_ID = FALSE
    /\ NoTransfer
    /\ NoContext
    /\ NoOutside

\* TeraboxDownloader_002.handleDownload for a message of chatId
Request_002(chatId) ==
    /\ bot = "TeraboxDownloader_002"
    /\ \E body \in SessionBodies(bot) :
         /\ lastFileDetails' = <<Stored(body, UrlOf[chatId], Undefined, Undefined)>>
         /\ keyboards' = [keyboards EXCEPT
                             ![chatId] = @ \cup callback_data_002(body)]
    /\ UNCHANGED fileDetailsMap

\* MultiPlatformDownloader.handleDownload for a message of chatId
Request_Multi(chatId) ==
    /\ bot = "MultiPlatformDownloader"
    /\ \E body \in SessionBodies(bot), alpha \in SessionAlphaAnswers :
         LET rapidCall == fetchTeraboxDetailsFromRapidAPI(
                              [ok |-> TRUE, cause |-> "", body |-> body])
             alphaCall == fetchTeraboxDetailsFromAlphaAPI(alpha)
             call == IF rapidCall.ok THEN rapidCall ELSE alphaCall
             d == call.value
         IN IF /\ call.ok
               /\ d.file_name # Undefined
               /\ formatFileSize_Multi(OrElse(d.sizebytes, d.file_size)).ok
               /\ hasDirectLink(d) \/ hasFastLink(d)
            THEN /\ fileDetailsMap' =
                      [fileDetailsMap EXCEPT ![chatIdString[chatId]] =
                          <<Stored(d, UrlOf[chatId],
                                   getServiceProvider(SUPPORTED_DOMAINS_Multi,
                                                      UrlOf[chatId]),
                                   IF rapidCall.ok THEN "RapidAPI" ELSE "AlphaAPI")>>]
                 /\ keyboards' = [keyboards EXCEPT
                                     ![chatId] = @ \cup callback_data(d, chatId)]
            ELSE UNCHANGED <<fileDetailsMap, keyboards>>
    /\ UNCHANGED lastFileDetails

\* TeraboxDownloader_004.handleDownload for a message of chatId
Request_004(chatId) ==
    /\ bot = "TeraboxDownloader_004"
    /\ \E body \in SessionBodies(bot) :
         IF /\ body.file_name # Undefined
            /\ hasDirectLink(body) \/ hasFastLink(body)
         THEN /\ fileDetailsMap' =
                   [fileDetailsMap EXCEPT ![chatIdString[chatId]] =
                       <<Stored(body, UrlOf[chatId], Undefined, Undefined)>>]
              /\ keyboards' = [keyboards EXCEPT
                                  ![chatId] = @ \cup callback_data_004(body, chatId)]
         ELSE UNCHANGED <<fileDetailsMap, keyboards>>
    /\ UNCHANGED lastFileDetails

\* a /download message of a chat
Session_Request ==
    /\ bot \in ButtonBots
    /\ requests < MaxRequests
    /\ requests' = requests + 1
    /\ \E chatId \in Chats :
         Request_002(chatId) \/ Request_004(chatId) \/ Request_Multi(chatId)
    /\ UNCHANGED <<bot, pc, url, rapidAPIResult, alphaAPIResult, rapidAPIError,
                   alphaAPIError, fileDetails, apiSource, downloadLink, gate,
                   outbox, apiCalls, downloads, transfers, files>>
    /\ UNCHANGED <<transferVars, outsideVars, settings>>

Requested(link, fileName, found) ==
    [state |-> "requested", link |-> link, fileName |-> fileName,
     path |-> <<>>, details |-> found, button |-> <<>>]
Refused(found) == [NoDownload EXCEPT !.state = "failed", !.details = found]

\* the callback_query handler of TeraboxDownloader_002 up to downloadFile
Callback_002(data) ==
    LET downloadType == data[1]
        last == lastFileDetails[1]
    IN IF downloadType = "direct" /\ last.link # NA
       THEN Requested(last.link, last.file_name, lastFileDetails)
       ELSE IF downloadType = "fast" /\ last.fastlink # NA
       THEN Requested(last.fastlink, last.file_name, lastFileDetails)
       ELSE Refused(lastFileDetails)

\* handleDownloadCallback of MultiPlatformDownloader and the callback_query
\* handler of TeraboxDownloader_004 up to downloadFile; data.split('_') is
\* [downloadType, conversionType, chatIdStr, ...] and
\* [downloadType, chatIdStr, ...]
Callback_Multi(data) ==
    LET downloadType == data[1]
        chatIdStr == IF bot = "TeraboxDownloader_004" THEN data[2] ELSE data[3]
        found == fileDetailsMap[chatIdStr]
    IN IF found = <<>> THEN Refused(found)
       ELSE IF downloadType = "direct" /\ Usable(found[1].link)
       THEN Requested(found[1].link, found[1].file_name, found)
       ELSE IF downloadType = "fast" /\ Usable(found[1].fastlink)
       THEN Requested(found[1].fastlink, found[1].file_name, found)
       ELSE Refused(found)

\* a download button of a message in chat chatId is pressed
Session_Callback ==
    /\ bot \in ButtonBots
    /\ \E chatId \in Chats :
         /\ transfers[chatId].state \notin InFlight
         /\ \E button \in keyboards[chatId] :
              transfers' = [transfers EXCEPT ![chatId] =
                               [(IF bot = "TeraboxDownloader_002"
                                 THEN Callback_002(button.data)
                                 ELSE Callback_Multi(button.data))
                                EXCEPT !.button = <<button>>]]
    /\ UNCHANGED <<bot, pc, requestVars, outbox, lastFileDetails,
                   fileDetailsMap, keyboards, files>>
    /\ UNCHANGED <<transferVars, outsideVars, settings>>

\* a link of a chat is resolved by TeraboxDownloader or TeraBoxVideoBot (whose
\* answer has filename, downloadLink and size), and the download is started
Session_Text ==
    /\ bot \in SessionBots \ ButtonBots
    /\ requests < MaxRequests
    /\ requests' = requests + 1
    /\ \E chatId \in Chats, body \in SessionBodies(bot) :
         /\ transfers[chatId].state \notin InFlight
         /\ transfers' = [transfers EXCEPT ![chatId] =
              IF bot = "TeraboxDownloader"
              THEN IF /\ body.file_name # Undefined
                      /\ hasDirectLink(body) \/ hasFastLink(body)
                      /\ SizeGate_Terabox(body) = "DIRECT_RELAY"
                   THEN Requested(IF hasFastLink(body) THEN body.fastlink
                                  ELSE body.link,
                                  body.file_name, <<>>)
                   ELSE Refused(<<>>)
              ELSE IF body.link # Undefined
                   THEN Requested(body.link,
                                  IF body.file_name = Undefined THEN "video.mp4"
                                  ELSE body.file_name, <<>>)
                   ELSE Refused(<<>>)]
    /\ UNCHANGED <<bot, pc, url, rapidAPIResult, alphaAPIResult, rapidAPIError,
                   alphaAPIError, fileDetails, apiSource, downloadLink, gate,
                   outbox, apiCalls, downloads, lastFileDetails, fileDetailsMap,
                   keyboards, files>>
    /\ UNCHANGED <<transferVars, outsideVars, settings>>

\* the axios request of the download answers: the write stream is created at
\* the path of the file name, or the request (a link that is no URL) or
\* fileName.replace (no file name) fails
Session_Response ==
    /\ \E chatId \in Chats, ok \in BOOLEAN :
         LET t == transfers[chatId] IN
         /\ t.state = "requested"
         /\ IF ok /\ Usable(t.link) /\ t.fileName # Undefined
            THEN /\ transfers' = [transfers EXCEPT ![chatId] =
                        [t EXCEPT !.state = "writing",
                                  !.path = filePath(bot, t.fileName)]]
                 /\ files' = files \cup {filePath(bot, t.fileName)}
            ELSE /\ transfers' = [transfers EXCEPT ![chatId].state = "failed"]
                 /\ UNCHANGED files
    /\ UNCHANGED <<bot, pc, requestVars, outbox, lastFileDetails,
                   fileDetailsMap, keyboards>>
    /\ UNCHANGED <<transferVars, outsideVars, settings>>

\* the write stream finishes: the file is sent to the requester
Session_Finish ==
    /\ \E chatId \in Chats :
         /\ transfers[chatId].state = "writing"
         /\ transfers' = [transfers EXCEPT ![chatId].state = "sending"]
    /\ UNCHANGED <<bot, pc, requestVars, outbox, lastFileDetails,
                   fileDetailsMap, keyboards, files>>
    /\ UNCHANGED <<transferVars, outsideVars, settings>>

\* the file has been sent; all but TeraboxDownloader_002 then unlink the path
Session_Cleanup ==
    /\ \E chatId \in Chats :
         /\ transfers[chatId].state = "sending"
         /\ transfers' = [transfers EXCEPT ![chatId].state = "done"]
         /\ files' = IF bot = "TeraboxDownloader_002" THEN files
                     ELSE files \ {transfers[chatId].path}
    /\ UNCHANGED <<bot, pc, requestVars, outbox, lastFileDetails,
                   fileDetailsMap, keyboards>>
    /\ UNCHANGED <<transferVars, outsideVars, settings>>

SessionNext ==
    \/ Session_Request
    \/ Session_Callback
    \/ Session_Text
    \/ Session_Response
    \/ Session_Finish
    \/ Session_Cleanup

SessionSpec == SessionInit /\ [][SessionNext]_vars

-----------------------------------------------------------------------------
(* The axios requests of the resolver adapters and of the download, against *)
(* an upstream that answers or stays silent                                 *)

\* longest time, in seconds, a request is followed
MaxElapsed == 150

\* the clock advances in steps of ten seconds
ClockStep == 10

\* timeout: 120000 of the download request, in seconds
DownloadTimeoutSeconds == 120

\* the adapters pass no timeout to axios.get: the axios default, 0, no timeout
AxiosDefaultTimeout == 0

CallBots == {"TeraboxDownloader", "MultiPlatformDownloader"}
ResolverCalls == {"RapidAPI", "AlphaAPI"}
Calls == ResolverCalls \cup {"download"}

\* config.timeout of the axios request of a call, in seconds
timeoutOf(call) ==
    IF call = "download" THEN DownloadTimeoutSeconds ELSE AxiosDefaultTimeout

CallInit ==
    /\ bot \in CallBots
    /\ pc = "call"
    /\ requests = 0
    /\ NoRequest
    /\ DUMP_CHANNEL_ID = FALSE
    /\ NoTransfer
    /\ NoContext
    /\ NoOutside

CallUnchanged ==
    UNCHANGED <<bot, pc, url, rapidAPIResult, alphaAPIResult, rapidAPIError,
                alphaAPIError, fileDetails, apiSource, downloadLink, gate,
                outbox, apiCalls, downloads, transferVars, contextVars,
                pageVars, forwardVars, sideVars, chatMember>>

\* axios.get(...) / axios({...}) is called; the upstream will answer or not
Http_Request ==
    /\ http.state # "pending"
    /\ requests < MaxRequests
    /\ requests' = requests + 1
    /\ \E call \in Calls, upstream \in {"answers", "silent"} :
         http' = [call |-> call, timeout |-> timeoutOf(call),
                  upstream |-> upstream, elapsed |-> 0, state |-> "pending",
                  message |-> ""]
    /\ CallUnchanged

\* time passes while the request is pending; a request with a timeout is not
\* pending past it
Http_Tick ==
    /\ http.state = "pending"
    /\ http.elapsed + ClockStep <= MaxElapsed
    /\ http.timeout = 0 \/ http.elapsed < http.timeout
    /\ http' = [http EXCEPT !.elapsed = @ + ClockStep]
    /\ UNCHANGED requests
    /\ CallUnchanged

\* the upstream answers: the promise is fulfilled, or rejected with an error
Http_Answer ==
    /\ http.state = "pending" /\ http.upstream = "answers"
    /\ \/ http' = [http EXCEPT !.state = "fulfilled"]
       \/ \E cause \in TransportErrors :
            http' = [http EXCEPT !.state = "rejected", !.message = cause]
    /\ UNCHANGED requests
    /\ CallUnchanged

\* the timeout of the request passes: axios aborts it and rejects
Http_Timeout ==
    /\ http.state = "pending"
    /\ http.timeout > 0 /\ http.elapsed >= http.timeout
    /\ http' = [http EXCEPT !.state = "rejected", !.message = "timeout exceeded"]
    /\ UNCHANGED requests
    /\ CallUnchanged

CallNext ==
    \/ Http_Request
    \/ Http_Tick
    \/ Http_Answer
    \/ Http_Timeout

CallSpec == CallInit /\ [][CallNext]_vars

-----------------------------------------------------------------------------
(* The player page (src/unnamed/part_000) and the tokens of its links *)

\* hours the token store is followed
MaxHours == 2

\* time to live of a token, in hours
TokenTTLHours == 1

\* the tokens the bot issues; "forged" is never issued
IssuedTokens == {"tok1"}

Queries ==
    [token  : {<<>>, <<"">>, <<"tok1">>, <<"forged">>},
     url    : {<<>>, <<"">>, <<"https://rapid/fast">>},
     name   : {<<>>, <<"">>, <<"clip.mp4">>},
     size   : {<<>>, <<"12 MB">>},
     source : {<<>>, <<"RapidAPI">>},
     alt    : {<<>>, <<"">>, <<"https://rapid/direct">>}]

\* showAuthError(message)
showAuthError(p, message) ==
    [p EXCEPT !.authErrorText = message, !.authError = "block",
              !.validContent = "none"]

\* the DOMContentLoaded listener with the name not looked at
DOMContentLoaded_NameUnchecked(p) ==
    LET q == p.query IN
    IF ~Present(q.token)
    THEN showAuthError(p, p.authErrorText)
    ELSE IF ~Present(q.url)
    THEN showAuthError(p, "Missing required parameters")
    ELSE [p EXCEPT !.validContent = "block",
                   !.fileName = ValueOr(q.name, "null"),
                   !.fileSize = ValueOr(q.size, "Unknown"),
                   !.source = ValueOr(q.source, "TeraBox"),
                   !.videoPlayer = q.url[1],
                   !.downloadLink = q.url[1],
                   !.altDownloadLink = IF Present(q.alt) THEN "inline-block"
                                       ELSE "none",
                   !.altHref = IF Present(q.alt) THEN q.alt[1] ELSE "#"]

\* the DOMContentLoaded listener of the page
DOMContentLoaded(p) ==
    LET q == p.query IN
    IF ~Present(q.token)
    THEN showAuthError(p, "Access denied. This player can only be accessed through the Telegram bot.")
    ELSE IF ~Present(q.url) \/ ~Present(q.name)
    THEN showAuthError(p, "Missing required parameters")
    ELSE [p EXCEPT !.validContent = "block",
                   !.fileName = q.name[1],
                   !.fileSize = ValueOr(q.size, "Unknown"),
                   !.source = ValueOr(q.source, "TeraBox"),
                   !.videoPlayer = q.url[1],
                   !.downloadLink = q.url[1],
                   !.altDownloadLink = IF Present(q.alt) THEN "inline-block"
                                       ELSE "none",
                   !.altHref = IF Present(q.alt) THEN q.alt[1] ELSE "#"]

PageInit ==
    /\ bot = "TeraboxDownloader"
    /\ pc = "page"
    /\ requests = 0
    /\ NoRequest
    /\ DUMP_CHANNEL_ID = FALSE
    /\ NoTransfer
    /\ NoContext
    /\ NoOutside

PageUnchanged ==
    UNCHANGED <<bot, pc, requestVars, outbox, transferVars, contextVars, http,
                forwardVars, sideVars, chatMember>>

\* a browser requests the page with a query and runs its script
Page_Load ==
    /\ \E query \in Queries :
         page' = [DOMContentLoaded(Markup(query)) EXCEPT
                     !.loaded = TRUE,
                     !.tokenInStore = Present(query.token) /\
                         \E v \in validTokens : v.token = query.token[1]]
    /\ UNCHANGED <<validTokens, clock>>
    /\ PageUnchanged

\* the bot issues a token for a player link
Token_Issue ==
    /\ \E t \in IssuedTokens :
         /\ \A v \in validTokens : v.token # t
         /\ validTokens' = validTokens \cup {[token |-> t, issuedAt |-> clock]}
    /\ UNCHANGED <<page, clock>>
    /\ PageUnchanged

\* an hour passes; the tokens whose time to live is over are purged
Token_Purge ==
    /\ clock < MaxHours
    /\ clock' = clock + 1
    /\ validTokens' = {v \in validTokens : clock' - v.issuedAt < TokenTTLHours}
    /\ UNCHANGED page
    /\ PageUnchanged

PageNext ==
    \/ Page_Load
    \/ Token_Issue
    \/ Token_Purge

PageSpec == PageInit /\ [][PageNext]_vars

-----------------------------------------------------------------------------
(* MultiPlatformDownloader with its settings buttons *)

\* callback_data of the settings buttons, and one that is none of them
SettingsData == {"settings_api_rapid", "settings_api_alpha", "settings_api_auto",
                 "settings_api_both"}

\* data.split('settings_api_')[1]
settingValue(data) ==
    CASE data = "settings_api_rapid" -> "rapid"
      [] data = "settings_api_alpha" -> "alpha"
      [] data = "settings_api_auto" -> "auto"
      [] OTHER -> "both"

\* the switch of handleSettingsCallback
responseText(value) ==
    CASE value = "rapid" ->
           <<"Settings updated: ", "Using RapidAPI for Terabox downloads">>
      [] value = "alpha" ->
           <<"Settings updated: ", "Using AlphaAPIs for Terabox downloads">>
      [] value = "auto" ->
           <<"Settings updated: ", "Auto mode - will try both APIs for best results">>
      [] OTHER -> <<"Invalid setting">>

SettingsInit ==
    /\ bot = "MultiPlatformDownloader"
    /\ pc = "idle"
    /\ requests = 0
    /\ NoRequest
    /\ DUMP_CHANNEL_ID = FALSE
    /\ NoTransfer
    /\ NoContext
    /\ NoOutside

\* handleSettingsCallback, between two /download messages: the settings
\* message is edited to the response text; nothing else is kept
Multi_SettingsCallback ==
    /\ bot = "MultiPlatformDownloader"
    /\ pc \in {"idle", "done"}
    /\ \E data \in SettingsData :
         settings' = [value |-> settingValue(data),
                      text |-> responseText(settingValue(data))]
    /\ UNCHANGED <<bot, pc, requestVars, outbox, lastFileDetails, fileDetailsMap,
                   keyboards, transfers, files>>
    /\ UNCHANGED <<transferVars, outsideVars>>

SettingsNext ==
    \/ Multi_SettingsCallback
    \/ Multi_Receive
    \/ Multi_Classify
    \/ Multi_RapidReturns
    \/ Multi_AlphaReturns

SettingsSpec == SettingsInit /\ [][SettingsNext]_vars

-----------------------------------------------------------------------------
(* BumpChannelBot with the /toggleforward command *)

BumpInit ==
    /\ bot = "BumpChannelBot"
    /\ pc = "idle"
    /\ requests = 0
    /\ NoRequest
    /\ DUMP_CHANNEL_ID = FALSE
    /\ NoTransfer
    /\ NoContext
    /\ NoOutside

\* bot.command('toggleforward'), between two text messages: an admin flips
\* autoForwarding, anyone else is turned away
Bump_ToggleForward ==
    /\ bot = "BumpChannelBot"
    /\ pc \in {"idle", "done"}
    /\ \E isUserAdmin \in BOOLEAN :
         IF isUserAdmin
         THEN /\ autoForwarding' = ~autoForwarding
              /\ outbox' = <<Msg("reply",
                     <<"Automatic forwarding to bump channel is now ",
                       IF autoForwarding' THEN "ENABLED" ELSE "DISABLED">>)>>
         ELSE /\ outbox' = <<Msg("reply",
                     <<"This command is only available to admins.">>)>>
              /\ UNCHANGED autoForwarding
    /\ pc' = "idle"
    /\ bumpChannel' = <<>>
    /\ chatMember' = ""
    /\ UNCHANGED <<bot, requestVars, reply_to_message>>
    /\ UNCHANGED <<transferVars, contextVars, http, pageVars, sideVars>>

BumpNext ==
    \/ Bump_ToggleForward
    \/ Bump_Receive
    \/ Bump_Membership
    \/ Bump_Extract
    \/ Bump_ApiReturns
    \/ Bump_Gate
    \/ Bump_Sent
    \/ Bump_SendFails

BumpSpec == BumpInit /\ [][BumpNext]_vars

-----------------------------------------------------------------------------
(* handleDownloadCallback of MultiPlatformDownloader (index.js) from the    *)
(* download on: conversion to MP4, delivery, dump channel, removal of files *)

\* file names of a likely video: the 'Download & Convert to MP4' button is
\* offered for them
ConvertNames == {"my  clip.mp4", "movie.mkv"}

\* what fileType.fromFile(filePath) finds: no type, a mime type, or it throws
FileTypes == {Undefined, "video/x-matroska", "application/zip", "throws"}

\* detectVideoFile: videoTypes.includes(type.mime); false without a type and
\* when fromFile throws
detectVideoFile(type) ==
    type \in {"video/mp4", "video/quicktime", "video/x-msvideo",
              "video/x-matroska", "video/webm", "video/mpeg"}

\* how the ffmpeg command ends: exit code 0 or not, with or without a file
\* at outputPath
ExecOutcomes == [exit : {0, 1}, output : BOOLEAN]

\* path.parse(fileName).name: the name without its last extension
ParsedName(s) ==
    IF Len(s) > 1 /\ s[Len(s)] \in {".mp4", ".mkv"}
    THEN SubSeq(s, 1, Len(s) - 1) ELSE s

\* `${fileNameWithoutExt}.mp4`
mp4FileName(file_name) == ParsedName(Characters(file_name)) \o <<".mp4">>

\* path.join(CONVERTED_DIR, outputFilename)
outputPath(outputFilename) == <<"converted", "/">> \o outputFilename

\* convertToMp4(filePath, outputFilename): the path it returns or the message
\* of the Error it throws, and the file it has left at outputPath
convertToMp4(outputFilename, type, exec) ==
    IF ~detectVideoFile(type)
    THEN [ok |-> FALSE, value |-> <<>>, created |-> {},
          message |-> "The file does not appear to be a valid video file."]
    ELSE IF exec.exit # 0
    THEN [ok |-> FALSE, value |-> <<>>,
          created |-> IF exec.output THEN {outputPath(outputFilename)} ELSE {},
          message |-> "Failed to convert file to MP4: Command failed"]
    ELSE IF ~exec.output
    THEN [ok |-> FALSE, value |-> <<>>, created |-> {},
          message |-> "Failed to convert file to MP4: Conversion failed: Output file not created"]
    ELSE [ok |-> TRUE, value |-> outputPath(outputFilename),
          created |-> {outputPath(outputFilename)}, message |-> ""]

\* the path downloadFile writes to
DownloadedPath == filePath(bot, fileDetails[1].file_name)

\* a button of a resolved video has been pressed, the descriptor has been
\* found in fileDetailsMap and has a usable link
ConvertInit ==
    /\ bot = "MultiPlatformDownloader"
    /\ pc = "download"
    /\ requests = 1
    /\ url = <<>>
    /\ rapidAPIResult = <<>> /\ alphaAPIResult = <<>>
    /\ rapidAPIError = <<>> /\ alphaAPIError = <<>>
    /\ \E name \in ConvertNames :
         fileDetails = <<[TransferDetails EXCEPT !.file_name = name]>>
    /\ apiSource = "RapidAPI"
    /\ downloadLink = TransferDetails.fastlink
    /\ gate = "" /\ outbox = <<>> /\ apiCalls = <<>>
    /\ downloads = <<TransferDetails.fastlink>>
    /\ DUMP_CHANNEL_ID \in BOOLEAN
    /\ NoTransfer
    /\ NoContext
    /\ http = NoCall /\ page = Markup(NoQuery) /\ validTokens = {} /\ clock = 0
    /\ autoForwarding = TRUE /\ reply_to_message = "none" /\ bumpChannel = <<>>
    /\ usersCollection = "collection" /\ startup = Up /\ chatMember = ""
    /\ \E conversionType \in {"original", "mp4"} :
         conversion = [NoConversion EXCEPT !.conversionType = conversionType]

ConvertUnchanged ==
    UNCHANGED <<bot, requestVars, DUMP_CHANNEL_ID, fileSize, now, lastUpdateTime,
                downloadedSize, lastProgress, reports, chunks, stream, writer,
                promise, timer, fin, file, unlinks, lateWrites, lastFileDetails,
                fileDetailsMap, keyboards, transfers, settings, http, pageVars,
                forwardVars, usersCollection, startup, chatMember>>

\* catch (error) of handleDownloadCallback: the requester is told, nothing
\* else is done
Convert_Caught(told, fault, message) ==
    /\ outbox' = Append(told, Msg("error", <<"Download failed: ", message>>))
    /\ faults' = faults \cup {fault}
    /\ pc' = "done"

\* const filePath = await this.downloadFile(downloadLink, file_name);
\* let finalFilePath = filePath; let fileName = fileDetails.file_name;
Convert_Download ==
    /\ pc = "download"
    /\ \E answer \in {"response"} \cup TransportErrors :
         IF answer = "response"
         THEN /\ files' = files \cup {DownloadedPath}
              /\ conversion' = [conversion EXCEPT
                                   !.finalFilePath = DownloadedPath,
                                   !.fileName = Characters(fileDetails[1].file_name)]
              /\ outbox' = outbox \o StartMessages
              /\ pc' = IF conversion.conversionType = "mp4" THEN "convert"
                       ELSE "upload"
              /\ UNCHANGED faults
         ELSE /\ Convert_Caught(outbox \o StartMessages, "connect", answer)
              /\ UNCHANGED <<files, conversion>>
    /\ UNCHANGED archive
    /\ ConvertUnchanged

\* if (conversionType === 'mp4') { sendMessage; try { finalFilePath = await
\* convertToMp4(...); fileName = mp4FileName; sendMessage } catch (convError)
\* { sendMessage; finalFilePath = filePath } }
Convert_Convert ==
    /\ pc = "convert"
    /\ \E type \in FileTypes, exec \in ExecOutcomes, failing \in 0..2 :
         LET name == mp4FileName(fileDetails[1].file_name)
             c == convertToMp4(name, type, exec)
             converting == Append(outbox,
                              Msg("status", <<"Converting file to MP4 format...">>))
             after == IF c.ok
                      THEN Msg("status", <<"Conversion completed successfully!">>)
                      ELSE Msg("warning", <<"Conversion failed: ", c.message,
                                            "\nSending original file instead.">>)
         IN
         IF failing = 1
         THEN /\ Convert_Caught(outbox, "message", SinkError)
              /\ UNCHANGED <<files, conversion>>
         ELSE /\ files' = files \cup c.created
              /\ conversion' =
                   [conversion EXCEPT
                       !.outcome = IF c.ok THEN "converted" ELSE "failed",
                       !.finalFilePath = IF c.ok THEN c.value ELSE DownloadedPath,
                       !.fileName = IF c.ok THEN name ELSE @]
              /\ IF failing = 2
                 THEN Convert_Caught(converting, "message", SinkError)
                 ELSE /\ outbox' = Append(converting, after)
                      /\ pc' = "upload"
                      /\ UNCHANGED faults
    /\ UNCHANGED archive
    /\ ConvertUnchanged

\* sendMessage("Uploading file to Telegram..."); sendDocument(chatId,
\* finalFilePath, {caption: `File: ${fileName}`})
Convert_Upload ==
    /\ pc = "upload"
    /\ \E ok \in BOOLEAN :
         LET told == Append(outbox, Msg("status", <<"Uploading file to Telegram...">>))
         IN
         /\ conversion.finalFilePath \notin files => ~ok
         /\ IF ok
            THEN /\ outbox' = Append(told,
                        Msg("document", <<"File: ">> \o conversion.fileName))
                 /\ conversion' = [conversion EXCEPT !.sent = conversion.finalFilePath]
                 /\ pc' = "dump"
                 /\ UNCHANGED faults
            ELSE /\ Convert_Caught(told, "send", SinkError)
                 /\ UNCHANGED conversion
    /\ UNCHANGED <<files, archive>>
    /\ ConvertUnchanged

\* if (DUMP_CHANNEL_ID) try { sendDocument(DUMP_CHANNEL_ID, finalFilePath,
\* {caption}) } catch (channelError) { console.error(...) }
Convert_Dump ==
    /\ pc = "dump"
    /\ \E ok \in BOOLEAN :
         /\ (~DUMP_CHANNEL_ID \/ conversion.finalFilePath \notin files) => ~ok
         /\ archive' = IF ok
                       THEN Append(archive,
                               [kind |-> "document",
                                text |-> <<"File Name: ">> \o conversion.fileName,
                                size |-> <<>>])
                       ELSE archive
         /\ faults' = IF DUMP_CHANNEL_ID /\ ~ok THEN faults \cup {"archive"}
                      ELSE faults
    /\ pc' = "unlink"
    /\ UNCHANGED <<outbox, files, conversion>>
    /\ ConvertUnchanged

\* try { fs.unlinkSync(filePath); if (finalFilePath !== filePath &&
\* fs.existsSync(finalFilePath)) fs.unlinkSync(finalFilePath) } catch {};
\* sendMessage("Download completed successfully!")
Convert_Cleanup ==
    /\ pc = "unlink"
    /\ files' = (files \ {DownloadedPath}) \
                   (IF conversion.finalFilePath # DownloadedPath
                    THEN {conversion.finalFilePath} ELSE {})
    /\ outbox' = Append(outbox, Msg("success", <<"Download completed successfully!">>))
    /\ pc' = "done"
    /\ UNCHANGED <<archive, faults, conversion>>
    /\ ConvertUnchanged

ConvertNext ==
    \/ Convert_Download
    \/ Convert_Convert
    \/ Convert_Upload
    \/ Convert_Dump
    \/ Convert_Cleanup

ConvertSpec == ConvertInit /\ [][ConvertNext]_vars

-----------------------------------------------------------------------------
(* The start of the Telegraf bots: client.connect(), bot.launch() and the   *)
(* first lines of the text handler, which saves the user                    *)

\* index.js (startBot), part_001, part_005 and part_006
StartupBots == {"BumpChannelBot", "TeraBoxVideoBot", "TeraBoxVideoBot_005",
                "TeraBoxVideoBot_006"}

\* startBot awaits connectToMongo() before bot.launch(); the others call
\* bot.launch() while the connect of their async function is under way
LaunchAwaitsConnect(b) == b = "BumpChannelBot"

\* a failed connect ends in process.exit(1) in index.js and part_005; in
\* part_001 and part_006 nothing catches the rejection of the async function
ExitsOnConnectError(b) == b \in {"BumpChannelBot", "TeraBoxVideoBot_005"}

\* saveUser of index.js and part_005 wraps updateOne in try/catch
SaveUserCatches(b) == b \in {"BumpChannelBot", "TeraBoxVideoBot_005"}

\* part_005 saves the user before it checks the membership
SavesFirst(b) == b = "TeraBoxVideoBot_005"

CHANNEL_USERNAME(b) == IF b = "BumpChannelBot" THEN "@terao2" ELSE "@awt_bots"

StartupInit ==
    /\ bot \in StartupBots
    /\ pc = "idle"
    /\ requests = 0
    /\ NoRequest
    /\ DUMP_CHANNEL_ID = FALSE
    /\ NoTransfer
    /\ NoContext
    /\ conversion = NoConversion
    /\ http = NoCall /\ page = Markup(NoQuery) /\ validTokens = {} /\ clock = 0
    /\ autoForwarding = TRUE /\ reply_to_message = "none" /\ bumpChannel = <<>>
    /\ usersCollection = Undefined
    /\ startup = Loaded
    /\ chatMember = ""

StartupUnchanged ==
    UNCHANGED <<bot, url, rapidAPIResult, alphaAPIResult, rapidAPIError,
                alphaAPIError, fileDetails, apiSource, downloadLink, gate,
                apiCalls, downloads, transferVars, contextVars, http, pageVars,
                forwardVars, conversion>>

\* await client.connect() resolves or rejects.  An unhandled rejection ends
\* the process or is only reported, as the runtime is set
Mongo_Connect ==
    /\ startup.client = "connecting" /\ startup.process = "running"
    /\ \E ok \in BOOLEAN, exits \in BOOLEAN :
         /\ (ok \/ ExitsOnConnectError(bot)) => exits
         /\ IF ok
            THEN /\ usersCollection' = "collection"
                 /\ startup' = [startup EXCEPT !.client = "connected"]
            ELSE /\ startup' = [startup EXCEPT
                                   !.client = "failed",
                                   !.process = IF exits THEN "exited" ELSE @]
                 /\ UNCHANGED usersCollection
    /\ UNCHANGED <<pc, requests, outbox, chatMember>>
    /\ StartupUnchanged

\* bot.launch(): the bot starts to poll for updates, or the launch fails
Bot_Launch ==
    /\ ~startup.launched /\ startup.process = "running"
    /\ LaunchAwaitsConnect(bot) => startup.client = "connected"
    /\ \E ok \in BOOLEAN :
         startup' = IF ok THEN [startup EXCEPT !.launched = TRUE]
                    ELSE [startup EXCEPT !.process = "exited"]
    /\ UNCHANGED <<pc, requests, outbox, usersCollection, chatMember>>
    /\ StartupUnchanged

\* bot.on("text"): a text message arrives
Startup_Receive ==
    /\ startup.launched /\ startup.process = "running"
    /\ pc \in {"idle", "done", "extract"}
    /\ requests < MaxRequests
    /\ requests' = requests + 1
    /\ outbox' = <<>>
    /\ pc' = IF SavesFirst(bot) THEN "saveUser" ELSE "membership"
    /\ startup' = [startup EXCEPT !.received = @ \cup {startup.client}]
    /\ chatMember' = ""
    /\ UNCHANGED usersCollection
    /\ StartupUnchanged

\* if (!(await isUserMember(userId))) return ctx.reply(...)
Startup_Membership ==
    /\ startup.process = "running" /\ pc = "membership"
    /\ \E status \in MemberStatuses :
         /\ chatMember' = status
         /\ IF ~isUserMember(status)
            THEN /\ Reply(<<"You must join ", CHANNEL_USERNAME(bot), " to use this bot.">>)
                 /\ pc' = "done"
            ELSE /\ pc' = IF SavesFirst(bot) THEN "extract" ELSE "saveUser"
                 /\ UNCHANGED outbox
    /\ UNCHANGED <<requests, usersCollection, startup>>
    /\ StartupUnchanged

\* await saveUser(userId): usersCollection.updateOne(...) throws a TypeError
\* while usersCollection is undefined; without a try/catch in saveUser the
\* handler ends there
Startup_SaveUser ==
    /\ startup.process = "running" /\ pc = "saveUser"
    /\ startup' = [startup EXCEPT !.saved = @ \cup {usersCollection}]
    /\ pc' = IF usersCollection = Undefined /\ ~SaveUserCatches(bot) THEN "done"
             ELSE IF SavesFirst(bot) THEN "membership" ELSE "extract"
    /\ UNCHANGED <<requests, outbox, usersCollection, chatMember>>
    /\ StartupUnchanged

StartupNext ==
    \/ Mongo_Connect
    \/ Bot_Launch
    \/ Startup_Receive
    \/ Startup_Membership
    \/ Startup_SaveUser

StartupSpec == StartupInit /\ [][StartupNext]_vars

-----------------------------------------------------------------------------
(* Properties of the resolution arbiter *)

HasUsableLink(d) == Usable(d.link) \/ Usable(d.fastlink)
OnlyDirectLink(d) == Usable(d.link) /\ ~Usable(d.fastlink)

\* both adapters have returned a descriptor to getBestTeraboxDetails
BothSucceeded == /\ bot = "TeraboxDownloader"
                 /\ rapidAPIResult # <<>> /\ alphaAPIResult # <<>>

\* s occurs in text as a run of consecutive lexemes
Contains(text, s) ==
    \E i \in 1..(Len(text) - Len(s) + 1) : SubSeq(text, i, i + Len(s) - 1) = s

Kinds(k) == {i \in 1..Len(outbox) : outbox[i].kind = k}

\* C1: whatever getBestTeraboxDetails returns has a link or a fastlink that
\* is present and not 'N/A'.
C1_ReturnedDescriptorHasLink ==
    (bot = "TeraboxDownloader" /\ fileDetails # <<>>)
        => HasUsableLink(fileDetails[1])

\* C2: when both adapters succeed and exactly one descriptor has a usable
\* fast link while the other has only a direct link, the arbiter returns the
\* descriptor with the fast link, and names its adapter.
C2_FastLinkPreferred ==
    BothSucceeded =>
        /\ (Usable(alphaAPIResult[1].fastlink) /\ OnlyDirectLink(rapidAPIResult[1]))
              => (fileDetails = alphaAPIResult /\ apiSource = "AlphaAPI")
        /\ (Usable(rapidAPIResult[1].fastlink) /\ OnlyDirectLink(alphaAPIResult[1]))
              => (fileDetails = rapidAPIResult /\ apiSource = "RapidAPI")

\* AlphaAPI brought the fast link, RapidAPI only a direct link, and the
\* arbiter returned AlphaAPI's descriptor
C2_Witness ==
    /\ BothSucceeded
    /\ Usable(alphaAPIResult[1].fastlink) /\ OnlyDirectLink(rapidAPIResult[1])
    /\ fileDetails = alphaAPIResult /\ apiSource = "AlphaAPI"
    /\ pc = "starting"

\* C3: when exactly one adapter failed and the other returned a descriptor,
\* the handler goes on with that descriptor, and every details message it
\* sends names that adapter as the API.
C3_FailureDoesNotSuppressSuccess ==
    bot \in {"TeraboxDownloader", "MultiPlatformDownloader"} =>
        /\ (rapidAPIError # <<>> /\ alphaAPIResult # <<>>)
              => /\ fileDetails = alphaAPIResult /\ apiSource = "AlphaAPI"
                 /\ \A i \in Kinds("details") : outbox[i].text[6] = "AlphaAPI"
        /\ (alphaAPIError # <<>> /\ rapidAPIResult # <<>>)
              => /\ fileDetails = rapidAPIResult /\ apiSource = "RapidAPI"
                 /\ \A i \in Kinds("details") : outbox[i].text[6] = "RapidAPI"

\* RapidAPI threw, AlphaAPI returned, and the requester was shown the
\* details with AlphaAPI as the source
C3_Witness ==
    /\ bot = "TeraboxDownloader"
    /\ rapidAPIError # <<>> /\ alphaAPIResult # <<>>
    /\ fileDetails = alphaAPIResult
    /\ \E i \in Kinds("details") : outbox[i].text[6] = "AlphaAPI"

\* the request ended with 'No download links available for this file.'
EndedWithoutLinks ==
    /\ pc = "done" /\ outbox # <<>>
    /\ outbox[Len(outbox)] =
           ErrorMsg(<<"No download links available for this file.">>)

\* C4: a RapidAPI descriptor without a usable link is discarded: the request
\* ends with 'No download links available' only if AlphaAPI was asked and
\* had no descriptor with a usable link either.
C4_LinklessDescriptorDiscarded ==
    (/\ bot \in {"TeraboxDownloader", "MultiPlatformDownloader"}
     /\ rapidAPIResult # <<>> /\ ~HasUsableLink(rapidAPIResult[1])
     /\ EndedWithoutLinks)
        => /\ \E i \in 1..Len(apiCalls) : apiCalls[i].api = "AlphaAPI"
           /\ alphaAPIResult = <<>> \/ ~HasUsableLink(alphaAPIResult[1])

\* C5: when both adapters failed, the requester gets exactly one message
\* after the status message, an error that carries the message of the
\* RapidAPI error and the message of the AlphaAPI error, and nothing is
\* downloaded.
C5_BothFailedOneError ==
    (/\ bot \in {"TeraboxDownloader", "MultiPlatformDownloader"}
     /\ rapidAPIError # <<>> /\ alphaAPIError # <<>>)
        => /\ pc = "done"
           /\ Len(outbox) = 2 /\ outbox[1].kind = "status"
           /\ outbox[2].kind = "error"
           /\ Contains(outbox[2].text, rapidAPIError[1])
           /\ Contains(outbox[2].text, alphaAPIError[1])
           /\ downloads = <<>> /\ fileDetails = <<>>

\* one adapter timed out, the other got malformed JSON, and the one error
\* message was sent
C5_Witness ==
    /\ bot = "TeraboxDownloader"
    /\ rapidAPIError = <<(<<"RapidAPI error: ", "timeout of 10000ms exceeded">>)>>
    /\ alphaAPIError = <<(<<"AlphaAPI error: ", "Unexpected token < in JSON">>)>>
    /\ Kinds("error") = {2}

-----------------------------------------------------------------------------
(* Properties of the link classifier *)

\* the text is a bare id: [a-zA-Z0-9_-] lexemes only
BareId(text) == text # <<>> /\ \A i \in 1..Len(text) : text[i] \in IdLexemes

\* the text has none of the link patterns: no supported domain, no /s/<id>
\* segment, no surl=<id> parameter, and it is no bare id
MatchesNoPattern(text) ==
    /\ getServiceProvider(SUPPORTED_DOMAINS_Terabox, text) = Undefined
    /\ SlashSId(text) = {}
    /\ ~\E i \in 1..(Len(text) - 1) : text[i] = "?surl=" /\ text[i + 1] \in IdLexemes
    /\ ~BareId(text)

\* the requester was turned away at the channel-membership check
TurnedAway == \E i \in 1..Len(outbox) : outbox[i].text[1] = "You must join "

\* C7: for a text with none of the supported link patterns no resolver API
\* request and no download is issued, and the handler ends with a message
\* that names the supported domains.
C7_UnsupportedInputRejected ==
    (/\ bot \in {"TeraboxDownloader", "TeraBoxVideoBot"}
     /\ url # <<>> /\ MatchesNoPattern(url))
        => /\ apiCalls = <<>> /\ downloads = <<>>
           /\ (pc = "done" /\ ~TurnedAway)
                 => Contains(outbox[Len(outbox)].text, Join(SUPPORTED_DOMAINS_Terabox))

-----------------------------------------------------------------------------
(* Properties of the size gates *)

\* the threshold each bot compares the size with
Threshold ==
    CASE bot = "TeraBoxVideoBot" -> 50000000
      [] OTHER -> Bytes50MB

\* the descriptor reports its size once: in sizebytes, in file_size, or the
\* same value in both
SingleReport(d) ==
    d.sizebytes = NoSize \/ d.file_size = NoSize \/ d.sizebytes = d.file_size

DeclaredSize(d) == IF d.sizebytes # NoSize THEN d.sizebytes ELSE d.file_size

UnknownSizeValue(x) == x.t = "undefined" \/ (x.t = "number" /\ x.v = 0)

\* bytes / 1024 of one unit
UnitKB(u) == CASE u = "KB" -> 1 [] u = "MB" -> 1024 [] u = "GB" -> 1024 * 1024

\* the byte count x stands for is strictly below t:
\*   (tenths / 10) * unit < t
BelowBytes(x, t) ==
    CASE x.t = "number" -> x.v < t
      [] x.t = "string" -> x.v * UnitKB(x.unit) <= (10 * t - 1) \div 1024
      [] OTHER -> FALSE

\* what the gate is to decide for a size
Expected(x, t) ==
    IF UnknownSizeValue(x) \/ BelowBytes(x, t) THEN "DIRECT_RELAY" ELSE "LINK_ONLY"

Decided == gate # "" /\ fileDetails # <<>> /\ SingleReport(fileDetails[1])

\* C8: a descriptor whose declared size is unknown (0 or missing) or strictly
\* below the threshold goes to direct relay, never to a link-only answer.
C8_SmallOrUnknownIsRelayed ==
    (/\ bot \in {"TeraboxDownloader", "TeraBoxVideoBot", "BumpChannelBot"}
     /\ Decided
     /\ Expected(DeclaredSize(fileDetails[1]), Threshold) = "DIRECT_RELAY")
        => (gate = "DIRECT_RELAY" /\ Kinds("link") = {})

\* C9: for a size that arrives in file_size, as a human-formatted string or
\* as a number, the gate of TeraboxDownloader decides as for the equivalent
\* byte count and does not throw.
C9_GateIndependentOfRepresentation ==
    (/\ bot = "TeraboxDownloader"
     /\ Decided
     /\ fileDetails[1].file_size # NoSize)
        => gate = Expected(fileDetails[1].file_size, Threshold)

\* C10: a descriptor whose declared size is at or above the threshold gets a
\* link-only answer: nothing is downloaded and the answer holds the link.
C10_LargeIsLinkOnly ==
    (/\ bot \in {"TeraboxDownloader", "TeraBoxVideoBot"}
     /\ Decided
     /\ Expected(DeclaredSize(fileDetails[1]), Threshold) = "LINK_ONLY")
        => /\ gate = "LINK_ONLY"
           /\ downloads = <<>>
           /\ \E i \in Kinds("link") : Contains(outbox[i].text, <<downloadLink>>)

\* the resolvers the bot is configured with
Resolvers ==
    CASE bot \in {"TeraboxDownloader", "MultiPlatformDownloader"} -> {"RapidAPI", "AlphaAPI"}
      [] OTHER -> {"AlphaAPI"}

Attempted == {apiCalls[i].api : i \in 1..Len(apiCalls)}

\* C11: a bot configured with two resolvers gives a link-only answer only
\* after both resolvers have been asked for this request.
C11_SecondResolverBeforeLinkOnly ==
    (Cardinality(Resolvers) = 2 /\ (gate = "LINK_ONLY" \/ Kinds("link") # {}))
        => Attempted = Resolvers

\* RapidAPI's descriptor of 200000000 bytes was selected, AlphaAPI had been
\* asked as well, and the request ended with the link only
C11_Witness ==
    /\ bot = "TeraboxDownloader" /\ pc = "done" /\ gate = "LINK_ONLY"
    /\ apiSource = "RapidAPI" /\ fileDetails[1].sizebytes = NumSize(200000000)
    /\ Attempted = {"RapidAPI", "AlphaAPI"}
    /\ outbox[Len(outbox)].kind = "link"

-----------------------------------------------------------------------------
(* Properties of the transfer and of the delivery *)

\* files the requester was sent
Delivered == Kinds("document") \cup Kinds("video")

\* messages that tell the requester of a failure
FailureReports ==
    {i \in 1..Len(outbox) :
        \/ outbox[i].kind = "error"
        \/ outbox[i].kind = "toast" /\ outbox[i].text[1] = "Download failed: "}

\* C12: the promise of downloadFile / downloadAndSendFile is resolved with
\* the file path only once the write stream has emitted 'finish'.
C12_PathOnlyAfterFinish ==
    promise.state = "resolved" => writer = "finished"

\* C13: once the watchdog has settled the promise, the write stream is
\* closed and the incoming stream stopped, and no byte is written to the
\* file after the outcome was reported.
C13_HandleReleasedOnTimeout ==
    (OutcomeReported /\ promise.by = "watchdog")
        => (writer # "open" /\ stream # "flowing" /\ lateWrites = 0)

\* C14: any two consecutive progress updates of a transfer are at least 3
\* seconds apart.
C14_ProgressAtMostEvery3Seconds ==
    \A i \in 1..(Len(reports) - 1) :
        reports[i + 1].at - reports[i].at >= ProgressSeconds

\* C15: in the bots that throttle by percentage, two consecutive progress
\* updates differ by at least 10 percentage points, whatever the declared
\* size.
C15_ProgressAtLeast10PointsApart ==
    bot \in StreamBots =>
        \A i \in 1..(Len(reports) - 1) :
            /\ reports[i].value.is = "finite"
            /\ reports[i + 1].value.is = "finite"
            /\ reports[i + 1].value.v - reports[i].value.v >= ProgressStep

\* C16: the percentages of the progress updates of a transfer never
\* decrease.
C16_PercentagesNeverDecrease ==
    bot \in StreamBots =>
        \A i \in 1..Len(reports) : \A j \in i..Len(reports) :
            GreaterEq(reports[j].value, reports[i].value)

\* chunks of 25 and 10 bytes of a declared 100 gave updates at 25% and 35%
C16_Witness ==
    /\ bot \in StreamBots /\ fileSize = 100
    /\ Len(reports) = 2
    /\ reports[1].value = Percent(25) /\ reports[2].value = Percent(35)

\* the stream, the 'finish' listener and the handler have come to their end
TransferOver ==
    /\ stream = "ended"
    /\ fin \in {"returned", "threw"} \/ writer = "errored"
    /\ bot \notin StreamBots => pc = "done"

\* C17: when nothing but progress updates has failed, the stream is written
\* to its end, nothing is rejected or reported as failed, and the transfer
\* ends with the file sent to the requester once.
C17_ProgressFailureDoesNotAbort ==
    (bot \in {"TeraboxDownloader"} \cup StreamBots /\ faults = {"progress"})
        => /\ stream = "ended" => writer = "finished"
           /\ promise.state # "rejected"
           /\ FailureReports = {}
           /\ TransferOver => Cardinality(Delivered) = 1

\* a progress update of downloadAndSendFile failed, nothing else did, and
\* the file was sent
C17_Witness ==
    /\ bot = "TeraboxDownloader" /\ faults = {"progress"}
    /\ \E i \in 1..Len(reports) : ~reports[i].ok
    /\ TransferOver /\ Cardinality(Delivered) = 1
    /\ promise.by = "finish"

\* C18: when the copy to the dump channel is the only thing that failed and
\* the requester has the file, the requester is told of no failure, has the
\* file once, and the handler ends with its success message.
C18_ArchiveFailureNonFatal ==
    (/\ bot \in CallbackBots \cup {"TeraBoxVideoBot_005"}
     /\ faults = {"archive"} /\ Delivered # {})
        => /\ FailureReports = {}
           /\ Cardinality(Delivered) = 1
           /\ pc = "done" => outbox[Len(outbox)].kind \in {"success", "toast"}

\* C19: a callback handler that has sent the file to the requester has
\* called unlinkSync on the local file by the time it ends.
C19_CleanupAfterDelivery ==
    (bot \in CallbackBots /\ pc = "done" /\ Delivered # {}) => unlinks >= 1

\* messages that end a request for the requester: the file, the link, an
\* error, or the success message
TerminalMessages ==
    {i \in 1..Len(outbox) :
        \/ outbox[i].kind \in {"document", "video", "link", "error", "toast", "success"}
        \/ outbox[i].text = <<"File sent successfully!">>}

\* C20: when nothing more happens for a request, the requester has a
\* terminal message.
C20_EveryRequestAnswered ==
    (stream # "none" /\ ~ENABLED TransferNext) => TerminalMessages # {}

-----------------------------------------------------------------------------
(* Properties of the stored descriptors and of the local paths *)

\* C21: resolved descriptors are kept per requester: a download started by a
\* button pressed in chat C uses a descriptor resolved for a request of
\* chat C, never one resolved for another chat
C21_CallbackUsesOwnDescriptor ==
    bot \in ButtonBots =>
        \A c \in Chats :
            transfers[c].details # <<>> =>
                transfers[c].details[1].originalUrl = UrlOf[c]

\* a chat's download has a file open or is sending it
OnDisk(c) == transfers[c].state \in {"writing", "sending"}

\* C22: two downloads that are under way never use the same local path, also
\* when both resolve to the same file name, and the file of a download that
\* is being written or sent has not been removed by the cleanup of another
C22_DistinctLocalPaths ==
    /\ \A c, d \in Chats :
         c # d /\ OnDisk(c) /\ OnDisk(d) => transfers[c].path # transfers[d].path
    /\ \A c \in Chats : OnDisk(c) => transfers[c].path \in files

-----------------------------------------------------------------------------
(* Properties of the download buttons *)

\* C26: a download is only requested with a usable link (present, not
\* undefined, not 'N/A'), and a download button is only offered for a
\* descriptor whose link of that kind is usable
C26_DownloadOnlyWithUsableLink ==
    \A c \in Chats :
        /\ transfers[c].state = "requested" => Usable(transfers[c].link)
        /\ \A button \in keyboards[c] : Usable(button.link)

-----------------------------------------------------------------------------
(* Properties of the HTTP requests *)

\* C23: every call of a resolver adapter bounds its own latency: when the
\* upstream never answers, the call has ended with a failure by the time the
\* clock has run as far as it is followed
C23_AdapterCallEnds ==
    (http.call \in ResolverCalls /\ http.upstream = "silent"
        /\ http.elapsed = MaxElapsed) =>
        http.state = "rejected"

-----------------------------------------------------------------------------
(* Properties of the player page *)

Complete(q) == Present(q.token) /\ Present(q.url) /\ Present(q.name)

\* C24: once the script of the page has run, the content is shown exactly
\* when the query carries a non-empty token, url and name; otherwise the
\* content is hidden and the error message is shown; the alternate download
\* button is visible only when alt is present
C24_ContentShownIffComplete ==
    page.loaded =>
        /\ page.validContent = "block" <=> Complete(page.query)
        /\ ~Complete(page.query) =>
              page.validContent = "none" /\ page.authError = "block"
        /\ page.altDownloadLink # "none" => Present(page.query.alt)

C24_Witness ==
    /\ page.loaded /\ page.validContent = "block"
    /\ page.altDownloadLink = "inline-block"
    /\ page.videoPlayer = "https://rapid/fast"

\* C25: a page requested with a token that was never issued or has expired
\* (that is not in the store of valid tokens at that time) does not show the
\* content
C25_UnknownTokenRejected ==
    (page.loaded /\ Present(page.query.token) /\ ~page.tokenInStore) =>
        page.validContent = "none"

-----------------------------------------------------------------------------
(* Properties of the watchdog variant *)

\* C27: in the variant with the five-minute watchdog, the local file is
\* neither sent to the dump channel nor removed before the sendDocument to
\* the requester has completed (the document was sent, or the send failed)
C27_NoArchiveOrRemovalBeforeDelivery ==
    (bot = "TeraboxDownloader" /\ (archive # <<>> \/ unlinks > 0)) =>
        (Kinds("document") # {} \/ "send" \in faults)

-----------------------------------------------------------------------------
(* Properties of the id extraction *)

\* the id a text carries: the id after "/s/", the id after "surl=", or the
\* text itself when it is a bare id
HasId(text) ==
    \/ SlashSId(text) # {}
    \/ \E i \in 1..(Len(text) - 1) : text[i] = "?surl=" /\ text[i + 1] \in IdLexemes
    \/ BareId(text)
IdOf(text) ==
    IF SlashSId(text) # {}
    THEN LET i == CHOOSE k \in SlashSId(text) : \A j \in SlashSId(text) : k <= j
         IN IdRun(SubSeq(text, i + 1, Len(text)))
    ELSE IF BareId(text) THEN text
    ELSE LET i == CHOOSE k \in 1..(Len(text) - 1) :
                     text[k] = "?surl=" /\ text[k + 1] \in IdLexemes
         IN IdRun(SubSeq(text, i + 1, Len(text)))

\* C28: the id the resolver is asked for is <id> for every link that
\* contains /s/<id>, <id> for every link that contains surl=<id>, and the
\* text itself for a bare id
C28_IdExtracted ==
    (bot \in {"TeraboxDownloader", "TeraBoxVideoBot"} /\ url # <<>> /\ HasId(url)) =>
        \A i \in 1..Len(apiCalls) :
            apiCalls[i].api = "AlphaAPI" => apiCalls[i].arg = IdOf(url)

-----------------------------------------------------------------------------
(* Properties of the settings *)

Asked(api) == \E i \in 1..Len(apiCalls) : apiCalls[i].api = api

\* C29: after the bot has confirmed an API preference with 'Settings
\* updated', a /download request that follows consults the resolvers by that
\* preference: rapid RapidAPI only, alpha AlphaAPI only, auto RapidAPI and
\* then AlphaAPI
C29_PreferenceObeyed ==
    (/\ bot = "MultiPlatformDownloader"
     /\ pc \notin {"idle", "done"}
     /\ settings.text # <<>> /\ settings.text[1] = "Settings updated: ")
        => /\ settings.value = "rapid" => ~Asked("AlphaAPI")
           /\ settings.value = "alpha" => ~Asked("RapidAPI")
           /\ settings.value = "auto" =>
                 (Asked("AlphaAPI") => apiCalls[1].api = "RapidAPI")

-----------------------------------------------------------------------------
(* Properties of the forwarding to the bump channel *)

\* C30: when forwarding is enabled and the handler of a text message has sent
\* the file directly to the requester, the same file has been forwarded to
\* the bump channel; when forwarding is disabled the handler forwards nothing
C30_SentFileForwarded ==
    (bot = "BumpChannelBot" /\ pc = "done") =>
        /\ (autoForwarding /\ Kinds("document") # {}) =>
              \E i \in 1..Len(bumpChannel) : bumpChannel[i].file = downloadLink
        /\ ~autoForwarding => bumpChannel = <<>>

-----------------------------------------------------------------------------
(* Properties of the conversion to MP4 *)

\* the handler has ended after a conversion was asked for and attempted, and
\* no call of the Telegram API towards the requester has failed
ConversionOver ==
    /\ bot = "MultiPlatformDownloader" /\ pc = "done"
    /\ conversion.conversionType = "mp4" /\ conversion.outcome # ""
    /\ faults \cap {"message", "send"} = {}

\* the document the requester was sent has this caption name
DeliveredAs(name) ==
    \E i \in Kinds("document") : outbox[i].text = <<"File: ">> \o name

\* C31: when the conversion to MP4 fails the requester is told so and gets
\* the downloaded file under its original name, when it succeeds the
\* requester gets the converted file, and in both cases no local file of the
\* request is left afterwards.
C31_ConversionDeliveredAndCleaned ==
    ConversionOver =>
        /\ conversion.outcome = "failed" =>
              /\ conversion.sent = DownloadedPath
              /\ DeliveredAs(Characters(fileDetails[1].file_name))
              /\ \E i \in Kinds("warning") :
                    Contains(outbox[i].text, <<"Conversion failed: ">>)
        /\ conversion.outcome = "converted" =>
              /\ conversion.sent = outputPath(mp4FileName(fileDetails[1].file_name))
              /\ DeliveredAs(mp4FileName(fileDetails[1].file_name))
        /\ files = {}

-----------------------------------------------------------------------------
(* Properties of the download buttons *)

\* the download of chat c was started by a button and has not failed
PressedDownload(c) ==
    /\ bot \in ButtonBots
    /\ transfers[c].button # <<>>
    /\ transfers[c].state \in InFlight \cup {"done"}

\* the file name the button was made for: the last part of its callback_data
NameOnButton(button) == button.data[Len(button.data)]

\* C32: the download a button press starts fetches the file of the request
\* that made the button (its link, its file name), or the press fails; it
\* never fetches the file of a later request.
C32_ButtonDeliversItsOwnFile ==
    \A c \in Chats :
        PressedDownload(c) =>
            /\ transfers[c].link = transfers[c].button[1].link
            /\ transfers[c].fileName = NameOnButton(transfers[c].button[1])

-----------------------------------------------------------------------------
(* Properties of the removal of local files *)

\* the bots that remove the local file once it has been delivered
RelayAndDeleteBots == TransferBots \ {"TeraboxDownloader_002"}

\* C33: in the variants that delete the file after relaying it, no local
\* file of a transfer is left on disk once the request has ended, whether
\* the transfer was delivered or failed on the way.
C33_NoFileLeftBehind ==
    (bot \in RelayAndDeleteBots /\ TransferOver) => file # "present"

-----------------------------------------------------------------------------
(* Properties of the start of the bots *)

\* C34: whenever saveUser runs, usersCollection is defined, and no message
\* is handled once the connect to MongoDB has failed.
C34_CollectionDefinedWhenUsed ==
    bot \in StartupBots =>
        /\ Undefined \notin startup.saved
        /\ "failed" \notin startup.received

-----------------------------------------------------------------------------
(* Properties of the progress percentage *)

\* C35: every percentage shown in a progress update is an integer from 0 to
\* 100, whatever size was declared and however many bytes have arrived.
C35_PercentageBetween0And100 ==
    bot \in StreamBots =>
        \A i \in 1..Len(reports) :
            /\ reports[i].value.is = "finite"
            /\ reports[i].value.v \in 0..100

-----------------------------------------------------------------------------
(* Properties of the channel-membership gate *)

\* the membership of the sender of the current message has been looked up,
\* and the lookup gave a status other than member, administrator or creator,
\* or threw
TurnedAwayAsNonMember ==
    /\ bot \in {"TeraBoxVideoBot", "BumpChannelBot"}
    /\ chatMember \in {"left", "kicked", "throws"}

JoinMessage ==
    Msg("reply", <<"You must join ",
                   IF bot = "BumpChannelBot" THEN "@terao2" ELSE "@awt_bots",
                   " to use this bot.">>)

\* C36: when the membership lookup gives a non-member status or fails, the
\* text handler answers with the join-channel message and ends: no resolver
\* API request is issued and no download is started.
C36_GateFailsClosed ==
    TurnedAwayAsNonMember =>
        /\ pc = "done"
        /\ outbox = <<JoinMessage>>
        /\ apiCalls = <<>>
        /\ downloads = <<>>

\* a message whose membership lookup threw has been answered with the join
\* message, after an earlier message of a member had been handled
C36_Witness ==
    /\ bot \in {"TeraBoxVideoBot", "BumpChannelBot"}
    /\ chatMember = "throws"
    /\ requests = 2
    /\ pc = "done" /\ outbox = <<JoinMessage>>

====
